---- MODULE Spec2Model ----
(***************************************************************************)
(* A model of acme_lib.py (acme-compact): the JWS signed-request helper,   *)
(* account registration, per-domain challenge issuance / notification /   *)
(* polling, the serializable session state and certificate retrieval.     *)
(*                                                                         *)
(* Python values are modelled as follows.                                  *)
(*   - None is the empty sequence <<>>, a present optional value v is <<v>>*)
(*   - text whose characters matter (tokens, thumbprints, domains, hex)    *)
(*     is a sequence of character codes; other text is a TLA+ string       *)
(*   - bytes are sequences of 0..255                                       *)
(*   - every thread has a call stack of frames; a frame is a record with   *)
(*     the function's name (fn), its position (pc) and its locals          *)
(*   - an exception nobody catches unwinds the whole stack of the thread   *)
(*     and is recorded in ret[p]                                           *)
(***************************************************************************)
EXTENDS Integers, Sequences, FiniteSets, TLC

VARIABLES
    env,      \* the scenario: what the CA, the signer and the caller may do
    stack,    \* stack[p]: the call stack of thread p (last element is the top)
    ret,      \* ret[p]: outcome of the call that last returned or raised in p
    net,      \* net[p]: the HTTP requests thread p has made, in order
    caNonce,  \* how many Replay-Nonce values the CA has handed out
    usr,      \* what the calling program has: the session it holds, its
              \* serialized form, the state it loaded, the files on its disk
    fx        \* the call the program made last, and its effects other than
              \* requests: the domains inform was called with, the sleeps

vars == <<env, stack, ret, net, caNonce, usr, fx>>

\* ------------------------------------------------------------------ bounds

\* Number of threads that call _send_signed_request concurrently.
MaxCallers == 2
\* The most leading zero bytes an integer of a DER signature is given.
MaxLeadZero == 1
\* The most times the CA answers "pending" to the polls of one call.
MaxPending == 2
\* The longest token the CA issues where tokens are enumerated.
MaxTokenLen == 2
\* The most Subject Alternative Name entries of a CSR where CSRs are enumerated.
MaxSans == 2
\* The longest certificate (in bytes) the CA issues where certificates are
\* enumerated, two longer ones apart.
MaxDerLen == 49

Threads == 1..MaxCallers

\* ------------------------------------------------------------- Python glue

None == <<>>
Some(v) == <<v>>
IsNone(o) == o = <<>>
Val(o) == o[1]

\* The sequences over S of length at most n.
RECURSIVE SeqsUpTo(_, _)
SeqsUpTo(S, n) ==
    IF n = 0 THEN {<<>>}
    ELSE LET shorter == SeqsUpTo(S, n - 1) IN
         shorter \cup {Append(q, x) : q \in {r \in shorter : Len(r) = n - 1}, x \in S}

Top(p) == stack[p][Len(stack[p])]
Depth(p) == Len(stack[p])
Running(p, f, l) == Depth(p) > 0 /\ Top(p).fn = f /\ Top(p).pc = l
Push(p, fr) == [stack EXCEPT ![p] = Append(@, fr)]
Pop(p) == [stack EXCEPT ![p] = SubSeq(@, 1, Len(@) - 1)]
\* Replace the top frame.
Goto(p, fr) == [stack EXCEPT ![p] = [@ EXCEPT ![Len(@)] = fr]]
\* An exception no frame catches: every frame of the thread is left.
Unwind(p) == [stack EXCEPT ![p] = <<>>]

\* Thread p makes one more HTTP request.
Sent(p, r) == [net EXCEPT ![p] = Append(@, r)]

NoRet == [k |-> "none"]
NoUser == [held |-> None, blob |-> None, loaded |-> None, files |-> {}]
NoFx == [call |-> [fn |-> "none"], informed |-> <<>>, slept |-> 0]
Returned(f, v) == [k |-> "return", fn |-> f, val |-> v]
Raised(f, e, d) == [k |-> "raise", fn |-> f, exc |-> e, detail |-> d]

\* ---------------------------------------------------------------- helpers

\* _b64 and JSON encoding of header and payload are injective on the values
\* used here; the encoded form is kept as a tagged value.
B64(v) == [b64 |-> v]

\* binascii.hexlify / unhexlify on bytes and hex digits (0..15).
Hexlify(bytes) ==
    [i \in 1..(2 * Len(bytes)) |->
        IF i % 2 = 1 THEN bytes[(i + 1) \div 2] \div 16
                     ELSE bytes[i \div 2] % 16]
Unhexlify(hex) ==
    [i \in 1..(Len(hex) \div 2) |-> 16 * hex[2 * i - 1] + hex[2 * i]]

\* base64.b64encode on bytes: the character codes of the text.  Three bytes
\* give four characters of the alphabet A-Z a-z 0-9 + /; a last group of one
\* or two bytes is filled up with "=".
Base64Char(i) ==
    CASE i \in 0..25 -> 65 + i
      [] i \in 26..51 -> 97 + (i - 26)
      [] i \in 52..61 -> 48 + (i - 52)
      [] i = 62 -> 43
      [] i = 63 -> 47
Base64Encode(bytes) ==
    LET n == Len(bytes)
        byte(i) == IF i <= n THEN bytes[i] ELSE 0
        group(g) == 65536 * byte(3 * g - 2) + 256 * byte(3 * g - 1) + byte(3 * g)
        sextet(g, j) ==
            CASE j = 1 -> group(g) \div 262144
              [] j = 2 -> (group(g) \div 4096) % 64
              [] j = 3 -> (group(g) \div 64) % 64
              [] j = 4 -> group(g) % 64
    IN  [c \in 1..(4 * ((n + 2) \div 3)) |->
            LET g == (c + 3) \div 4
                j == c - 4 * (g - 1)
            IN  IF 3 * (g - 1) + j > n + 1 THEN 61 ELSE Base64Char(sextet(g, j))]

\* A textwrap.wrap that does not wrap at all.
TextwrapUnwrapped(text, width) == IF text = <<>> THEN <<>> ELSE <<text>>

\* textwrap.wrap(text, width) of a text without white space or hyphens (as
\* base64 text is): the text cut into pieces of `width` characters, the last
\* one with what is left; no piece for the empty text.
TextwrapWrap(text, width) ==
    [i \in 1..((Len(text) + width - 1) \div width) |->
        SubSeq(text, width * (i - 1) + 1,
               IF width * i < Len(text) THEN width * i ELSE Len(text))]

\* "\n".join(lines)
RECURSIVE JoinLines(_)
JoinLines(lines) ==
    IF lines = <<>> THEN <<>>
    ELSE IF Len(lines) = 1 THEN lines[1]
    ELSE lines[1] \o <<10>> \o JoinLines(Tail(lines))

\* ------------------------------------------------------------- algorithms

\* RSA.__init__
RSA ==
    [class |-> "RSA", name |-> "RSA", jws_algorithm |-> "RS256",
     jws_hash |-> "sha256", jws_hash_bytes |-> 32]

\* ECC.__init__
ECC(curve, openssl_curve, bitlength, jws_algorithm, jws_hash, jws_hash_bytes) ==
    [class |-> "ECC", name |-> "ECC-" \o curve, curve |-> curve,
     openssl_curve |-> openssl_curve,
     bitlength |-> bitlength, bytelength |-> (bitlength + 7) \div 8,
     jws_algorithm |-> jws_algorithm, jws_hash |-> jws_hash,
     jws_hash_bytes |-> jws_hash_bytes]

\* _ALGORITHMS
ALGORITHMS ==
    [a \in {"rsa", "p-256", "p-384"} |->
        CASE a = "rsa" -> RSA
          [] a = "p-256" -> ECC("p-256", "prime256v1", 256, "ES256", "sha256", 32)
          [] a = "p-384" -> ECC("p-384", "secp384r1", 384, "ES384", "sha384", 48)]

\* An account as parse_account_key returns it: key type, key file, algorithm,
\* JOSE header and thumbprint.  The thumbprint is base64url text.
Account(keyfile) ==
    LET ktype == IF keyfile = "rsa.key" THEN "rsa" ELSE "ec"
        alg == CASE keyfile = "rsa.key" -> ALGORITHMS["rsa"]
                 [] keyfile = "p256.key" -> ALGORITHMS["p-256"]
                 [] keyfile = "p384.key" -> ALGORITHMS["p-384"]
    IN  [account_key_type |-> ktype,
         account_key |-> keyfile,
         account_key_algorithm |-> alg,
         header |-> [alg |-> alg.jws_algorithm,
                     jwk |-> [kty |-> IF ktype = "rsa" THEN "RSA" ELSE "EC",
                              pub |-> keyfile]],
         thumbprint |-> CASE keyfile = "rsa.key" -> <<82, 95, 49>>
                          [] keyfile = "p256.key" -> <<80, 45, 50>>
                          [] keyfile = "p384.key" -> <<80, 51, 56>>]

KeyFiles == {"rsa.key", "p256.key", "p384.key"}

\* ------------------------------------------------------- the CA, as seen
\* by the client

\* A URL: the site, the parts of its path and, for the URL of a challenge, the
\* domain and the number the CA made it from.  CA + "/directory" is
\* U(CA, <<"/directory">>).
U(site, path) == [site |-> site, path |-> path, name |-> <<>>, n |-> 0]
DirectoryUrl(CA) == U(CA, <<"/directory">>)

\* The answer to a request: urlopen returns a response for a 2xx status, raises
\* HTTPError (an IOError with .code and .read()) for any other status and
\* URLError (an IOError with neither) when the transport fails.
Ok(code, body) == [t |-> "ok", code |-> code, body |-> body]
HttpError(code, body) == [t |-> "http_error", code |-> code, body |-> body]
UrlError == [t |-> "url_error", msg |-> "urlopen error"]
Answer(code, body) ==
    IF code \in 200..299 THEN Ok(code, body) ELSE HttpError(code, body)

\* What the CA may answer to the POST of a signed request for `payload`.
\* The body of a 2xx answer is made from one of the scenario's templates: for
\* new-authz the list of challenges of the identifier, each with a URI of its own.
Body(payload, tmpl) ==
    IF payload.resource = "new-authz"
    THEN [challenges |->
            [i \in 1..Len(tmpl) |->
                [type |-> tmpl[i].type, token |-> tmpl[i].token,
                 uri |-> [site |-> "https://ca", path |-> <<"/chal/">>,
                          name |-> payload.identifier.value, n |-> i]]]]
    ELSE tmpl
PostAnswers(payload) ==
    {Ok(c, Body(payload, b)) :
        c \in env.codes \cap (200..299), b \in env.bodies[payload.resource]}
        \cup {HttpError(c, "error document") : c \in env.codes \ (200..299)}
        \cup {UrlError}

\* ------------------------------------------------------ _lookup_directory

\* A _lookup_directory that gives every key its conventional URL, whatever the
\* directory document says.
LookupDirectoryConventional(CA, keys, data, nonce) ==
    <<nonce>> \o [i \in 1..Len(keys) |-> U(CA, <<"/acme/", keys[i]>>)]

\* _lookup_directory(CA, *keys) once the directory document `data` has been
\* read and the response carried the Replay-Nonce header `nonce` (or None).
LookupDirectory(CA, keys, data, nonce) ==
    <<nonce>> \o
        [i \in 1..Len(keys) |->
            IF keys[i] \in DOMAIN data THEN data[keys[i]]
            ELSE U(CA, <<"/acme/", keys[i]>>)]

\* --------------------------------------------------- _send_signed_request

\* What "openssl dgst -sign" returns for an EC key: a DER SEQUENCE of INTEGERs,
\* kept as the sequence of the integers' magnitudes (big-endian bytes without
\* leading zero bytes).  sh.zeros[i] is the number of leading zero bytes the
\* i-th integer has when written with the curve's byte length, sh.top its
\* first non-zero byte; the fill byte tells the integers apart.
DerInteger(len, top, fill) == [i \in 1..len |-> IF i = 1 THEN top ELSE fill]
DerSignature(alg, sh) ==
    [i \in 1..Len(sh.zeros) |->
        DerInteger(alg.bytelength - sh.zeros[i], sh.top, 16 * i + i)]

\* "openssl asn1parse" prints one line per INTEGER with two hex digits per byte
\* of its magnitude; the hex text of each such line, in order.
Asn1Parse(der) == [i \in 1..Len(der) |-> Hexlify(der[i])]

\* re.findall(r"prim:\s+INTEGER\s+:([0-9A-F]{%s})\n" % (2 * jws_hash_bytes), out):
\* the lines whose hex text has exactly that many digits.
FindSig(alg, lines) ==
    SelectSeq(lines, LAMBDA h : Len(h) = 2 * alg.jws_hash_bytes)

\* The frame of a call of _send_signed_request.
SendFrame(payload, acct, CA, key, url) ==
    [fn |-> "_send_signed_request", pc |-> "lookup",
     payload |-> payload, header |-> acct.header, CA |-> CA,
     account_key_type |-> acct.account_key_type,
     account_key |-> acct.account_key,
     account_key_algorithm |-> acct.account_key_algorithm,
     key |-> key, url |-> url,
     nonce |-> None, nonce_url |-> None, gets |-> 0,
     protected |-> None, der |-> None, out |-> None]

\* Lines 282 and 296: headers['Replay-Nonce'] of a response without such a
\* header is None under Python 3 (email.message.Message) and raises KeyError
\* under Python 2 (rfc822.Message).
HeaderMissing(python, nonce) == IsNone(nonce) /\ python = 2

\* Lines 290-293: the directory is fetched; the nonce, the target URL (when
\* only a key was given) and the new-nonce URL are taken from the result.
Lookup(p) ==
    /\ Running(p, "_send_signed_request", "lookup")
    /\ LET f == Top(p) IN
       \/ \* urlopen or json.loads fails in _lookup_directory
          /\ stack' = Unwind(p)
          /\ ret' = [ret EXCEPT ![p] = Raised("_lookup_directory", "IOError", None)]
          /\ net' = Sent(p, [by |-> p, m |-> "GET", url |-> DirectoryUrl(f.CA),
                                 nonce |-> None, req |-> None, ans |-> UrlError])
          /\ UNCHANGED caNonce
       \/ \E data \in env.dirDocs, hasNonce \in env.dirNonce, python \in env.python :
            LET nonce == IF hasNonce THEN Some(caNonce + 1) ELSE None
                r == IF IsNone(f.url)
                     THEN LookupDirectory(f.CA, <<Val(f.key), "new-nonce">>, data, nonce)
                     ELSE LookupDirectory(f.CA, <<"new-nonce">>, data, nonce)
                g == IF IsNone(f.url)
                     THEN [f EXCEPT !.nonce = r[1], !.url = Some(r[2]),
                                    !.nonce_url = Some(r[3])]
                     ELSE [f EXCEPT !.nonce = r[1], !.nonce_url = Some(r[2])]
            IN  /\ net' = Sent(p, [by |-> p, m |-> "GET", url |-> DirectoryUrl(f.CA),
                                       nonce |-> nonce, req |-> None, ans |-> Ok(200, data)])
                /\ caNonce' = IF hasNonce THEN caNonce + 1 ELSE caNonce
                /\ IF HeaderMissing(python, nonce)
                   THEN /\ stack' = Unwind(p)
                        /\ ret' = [ret EXCEPT ![p] =
                                     Raised("_lookup_directory", "KeyError", None)]
                   ELSE /\ stack' = Goto(p, [g EXCEPT !.gets = @ + 1,
                                               !.pc = IF IsNone(g.nonce) THEN "nonce"
                                                                         ELSE "sign"])
                        /\ UNCHANGED ret
    /\ UNCHANGED <<env, usr, fx>>

\* Lines 295-296: without a nonce from the directory, nonce_url is asked.
FetchNonce(p) ==
    /\ Running(p, "_send_signed_request", "nonce")
    /\ LET f == Top(p) IN
       \/ /\ stack' = Unwind(p)
          /\ ret' = [ret EXCEPT ![p] = Raised("_send_signed_request", "IOError", None)]
          /\ net' = Sent(p, [by |-> p, m |-> "GET", url |-> Val(f.nonce_url),
                                 nonce |-> None, req |-> None, ans |-> UrlError])
          /\ UNCHANGED caNonce
       \/ \E hasNonce \in env.newNonce, python \in env.python :
            LET nonce == IF hasNonce THEN Some(caNonce + 1) ELSE None IN
            /\ net' = Sent(p, [by |-> p, m |-> "GET", url |-> Val(f.nonce_url),
                                   nonce |-> nonce, req |-> None, ans |-> Ok(200, "document")])
            /\ caNonce' = IF hasNonce THEN caNonce + 1 ELSE caNonce
            /\ IF HeaderMissing(python, nonce)
               THEN /\ stack' = Unwind(p)
                    /\ ret' = [ret EXCEPT ![p] =
                                 Raised("_send_signed_request", "KeyError", None)]
               ELSE /\ stack' = Goto(p, [f EXCEPT !.nonce = nonce, !.gets = @ + 1,
                                                  !.pc = "sign"])
                    /\ UNCHANGED ret
    /\ UNCHANGED <<env, usr, fx>>

\* Lines 302-308: the signature is made by openssl and, for an EC key,
\* re-encoded.
EncodeEcSignature(alg, der) ==
    LET sig == FindSig(alg, Asn1Parse(der)) IN
    IF Len(sig) # 2 THEN None
    ELSE Some(Unhexlify(sig[1]) \o Unhexlify(sig[2]))

\* A _send_signed_request that adds the nonce to the header it was passed and
\* takes that for the protected header.
ProtectedHeaderInPlace(header, nonce) ==
    [header |-> [alg |-> header.alg, jwk |-> header.jwk, nonce |-> nonce],
     protected |-> [header |-> header, nonce |-> nonce]]

\* Lines 299-301: protected is a deep copy of the header to which the nonce is
\* added; the header object that was passed stays as it is.
ProtectedHeader(header, nonce) ==
    [header |-> header, protected |-> [header |-> header, nonce |-> nonce]]

\* notify_challenges and check_challenges pass state['header'], the header
\* object of the session the program holds (lines 560 and 579): what the
\* callee does to that object is seen in the session.
HeaderSeenByProgram(p, header) ==
    IF p = 1 /\ "state" \in DOMAIN fx.call /\ ~IsNone(usr.held)
    THEN [usr EXCEPT !.held = Some([Val(@) EXCEPT !.header = header])]
    ELSE usr

Sign(p) ==
    /\ Running(p, "_send_signed_request", "sign")
    /\ usr' = HeaderSeenByProgram(p, ProtectedHeader(Top(p).header, Top(p).nonce).header)
    /\ LET made == ProtectedHeader(Top(p).header, Top(p).nonce)
           f == [Top(p) EXCEPT !.header = made.header]
           protected == made.protected
           signed == <<B64(protected), B64(f.payload)>>
       IN
       \/ \* _run_openssl: openssl ends with a non-zero return code
          /\ stack' = Unwind(p)
          /\ ret' = [ret EXCEPT ![p] = Raised("_run_openssl", "IOError", None)]
       \/ /\ f.account_key_type # "ec"
          /\ stack' = Goto(p, [f EXCEPT !.protected = Some(protected),
                                 !.out = Some([rsa_signature_over |-> signed]),
                                 !.pc = "post"])
          /\ UNCHANGED ret
       \/ /\ f.account_key_type = "ec"
          /\ \E sh \in env.sigShapes :
               LET der == DerSignature(f.account_key_algorithm, sh)
                   out == EncodeEcSignature(f.account_key_algorithm, der)
               IN  IF IsNone(out)
                   THEN /\ stack' = Unwind(p)
                        /\ ret' = [ret EXCEPT ![p] =
                                     Raised("_send_signed_request", "Exception",
                                            Some([der |-> der, alg |-> f.account_key_algorithm]))]
                   ELSE /\ stack' = Goto(p, [f EXCEPT !.protected = Some(protected),
                                               !.der = Some(der), !.out = out,
                                               !.pc = "post"])
                        /\ UNCHANGED ret
    /\ UNCHANGED <<env, net, caNonce, fx>>

\* A _send_signed_request that tells nothing of a failed POST but that it
\* failed.
PostResultHidesError(a) ==
    IF a.t = "ok" THEN <<Some(a.code), a.body>> ELSE <<None, "urlopen error">>

\* Lines 316-320: what is returned for the answer to the POST.  A response gives
\* (resp.getcode(), resp.read()); an IOError e gives (getattr(e, "code", None),
\* getattr(e, "read", e.__str__)()): status and body of an HTTPError, None and
\* the message of a URLError.
PostResult(a) ==
    IF a.t = "url_error" THEN <<None, a.msg>> ELSE <<Some(a.code), a.body>>

\* Lines 309-320: the JOSE object is POSTed; the status and body are returned,
\* also when urlopen raised an IOError.
Post(p) ==
    /\ Running(p, "_send_signed_request", "post")
    /\ LET f == Top(p)
           data == [header |-> f.header, protected |-> B64(Val(f.protected)),
                    payload |-> B64(f.payload), signature |-> B64(Val(f.out))]
       IN  \E a \in PostAnswers(f.payload) :
            /\ net' = Sent(p, [by |-> p, m |-> "POST", url |-> Val(f.url),
                                   nonce |-> f.nonce,
                                   req |-> Some([data |-> data, der |-> f.der,
                                                 gets |-> f.gets, payload |-> f.payload,
                                                 ans |-> a])])
            /\ stack' = Pop(p)
            /\ ret' = [ret EXCEPT ![p] = Returned("_send_signed_request", PostResult(a))]
    /\ UNCHANGED <<env, caNonce, usr, fx>>

SendStep(p) == Lookup(p) \/ FetchNonce(p) \/ Sign(p) \/ Post(p)

\* -------------------------------------------------------------- parse_csr

\* Python's order of two texts: by the first character that differs, a proper
\* prefix first.
RECURSIVE TextLess(_, _)
TextLess(a, b) ==
    IF b = <<>> THEN FALSE
    ELSE IF a = <<>> THEN TRUE
    ELSE IF a[1] # b[1] THEN a[1] < b[1]
    ELSE TextLess(Tail(a), Tail(b))

\* sorted(S) for a set of texts.
RECURSIVE Sorted(_)
Sorted(S) ==
    IF S = {} THEN <<>>
    ELSE LET least == CHOOSE x \in S : \A y \in S \ {x} : TextLess(x, y)
         IN  <<least>> \o Sorted(S \ {least})

\* A parse_csr that returns the names as a list in the order of the CSR,
\* neither sorted nor freed of repetitions.
ParseCsrInCsrOrder(csr) ==
    (IF IsNone(csr.cn) THEN <<>> ELSE <<Val(csr.cn)>>)
        \o [i \in 1..Len(SelectSeq(csr.sans, LAMBDA e : e.kind = "DNS")) |->
              SelectSeq(csr.sans, LAMBDA e : e.kind = "DNS")[i].value]

\* The text "openssl req -text" prints for a CSR, as far as parse_csr reads it:
\* csr.cn is the name after "CN=" in the Subject line (None without one),
\* csr.sans the entries of the Subject Alternative Name line, each with its
\* prefix (kind) and value.  The names found are added to a set and sorted.
ParseCsr(csr) ==
    LET common_name == IF IsNone(csr.cn) THEN {} ELSE {Val(csr.cn)}
        alt_names == {csr.sans[i].value :
                        i \in {j \in 1..Len(csr.sans) : csr.sans[j].kind = "DNS"}}
    IN  Sorted(common_name \cup alt_names)

\* ------------------------------------------------------- register_account

\* A register_account that takes "already registered" (409) for an error.
RegisterResultConflictFails(code, result) ==
    IF code = Some(201) THEN Returned("register_account", TRUE)
    ELSE Raised("register_account", "ValueError", Some(<<code, result>>))

\* A register_account that never fails, whatever the CA answered.
RegisterResultNeverFails(code, result) ==
    Returned("register_account", code = Some(201))

\* Lines 364-369: the result of register_account for the status and body that
\* _send_signed_request returned.
RegisterResult(code, result) ==
    IF code = Some(201) THEN Returned("register_account", TRUE)
    ELSE IF code = Some(409) THEN Returned("register_account", FALSE)
    ELSE Raised("register_account", "ValueError", Some(<<code, result>>))

\* ca_agreement
DefaultAgreement ==
    U("https://letsencrypt.org", <<"/documents/LE-SA-v1.1.1-August-1-2016.pdf">>)

\* Lines 352-362: the new-reg payload.
RegisterPayload(agreement, email_address, telephone) ==
    LET contacts == (IF IsNone(email_address) THEN <<>>
                     ELSE <<<<"mailto:", Val(email_address)>>>>)
                    \o (IF IsNone(telephone) THEN <<>>
                        ELSE <<<<"tel:", Val(telephone)>>>>)
        data == [resource |-> "new-reg", agreement |-> agreement]
    IN  IF Len(contacts) > 0
        THEN [resource |-> "new-reg", agreement |-> agreement, contact |-> contacts]
        ELSE data

RegisterFrame(acct, CA, email_address, telephone) ==
    [fn |-> "register_account", pc |-> "probe", acct |-> acct, CA |-> CA,
     email_address |-> email_address, telephone |-> telephone]

\* Lines 346-363: the agreement URL is probed at CA + "/terms"; then the new-reg
\* request is sent.  When the probe fails, line 351 reads e.message, which an
\* IOError has under Python 2 and lacks under Python 3 (AttributeError).
RegisterProbe(p) ==
    /\ Running(p, "register_account", "probe")
    /\ LET f == Top(p)
           probe(ans) == [by |-> p, m |-> "GET", url |-> U(f.CA, <<"/terms">>),
                          nonce |-> None, req |-> None, ans |-> ans]
           send(agreement) ==
               Push(p, SendFrame(RegisterPayload(agreement, f.email_address, f.telephone),
                                 f.acct, f.CA, Some("new-reg"), None))
       IN  \/ /\ net' = Sent(p, probe(Ok(200, "document")))
              /\ stack' = [send(U(f.CA, <<"/terms", "redirected">>)) EXCEPT
                             ![p][Len(stack[p])].pc = "sent"]
              /\ UNCHANGED ret
           \/ \E python \in env.python :
                /\ net' = Sent(p, probe(UrlError))
                /\ IF python = 2
                   THEN /\ stack' = [send(DefaultAgreement) EXCEPT
                                       ![p][Len(stack[p])].pc = "sent"]
                        /\ UNCHANGED ret
                   ELSE /\ stack' = Unwind(p)
                        /\ ret' = [ret EXCEPT ![p] =
                                     Raised("register_account", "AttributeError", None)]
    /\ UNCHANGED <<env, caNonce, usr, fx>>

\* Lines 364-369.
RegisterDone(p) ==
    /\ Running(p, "register_account", "sent")
    /\ LET r == RegisterResult(ret[p].val[1], ret[p].val[2]) IN
       /\ ret' = [ret EXCEPT ![p] = r]
       /\ stack' = IF r.k = "raise" THEN Unwind(p) ELSE Pop(p)
    /\ UNCHANGED <<env, net, caNonce, usr, fx>>

\* ---------------------------------------------------------- get_challenge

\* The character class without its last member, the escaped "-".
TokenCharNoDash(c) == c \in (65..90) \cup (97..122) \cup (48..57) \cup {95}

\* [A-Za-z0-9_\-]
TokenChar(c) == c \in (65..90) \cup (97..122) \cup (48..57) \cup {95, 45}

\* re.sub(r"[^A-Za-z0-9_\-]", "_", token)
Sanitize(token) ==
    [i \in 1..Len(token) |-> IF TokenChar(token[i]) THEN token[i] ELSE 95]

\* "{0}.{1}".format(token, thumbprint)
KeyAuthorization(token, thumbprint) == token \o <<46>> \o thumbprint

\* A get_challenge that selects the last challenge of type http-01.
ChallengeResultLastListed(code, result, thumbprint) ==
    IF code # Some(201)
    THEN Raised("get_challenge", "ValueError", Some(<<code, result>>))
    ELSE LET http01 == SelectSeq(result.challenges, LAMBDA c : c.type = "http-01") IN
         IF Len(http01) = 0
         THEN Raised("get_challenge", "IndexError", None)
         ELSE LET challenge == [http01[Len(http01)] EXCEPT !.token = Sanitize(@)] IN
              Returned("get_challenge",
                       <<challenge, challenge.token,
                         KeyAuthorization(challenge.token, thumbprint)>>)

\* Lines 383-390: the result of get_challenge for the status and body that
\* _send_signed_request returned.
ChallengeResult(code, result, thumbprint) ==
    IF code # Some(201)
    THEN Raised("get_challenge", "ValueError", Some(<<code, result>>))
    ELSE LET http01 == SelectSeq(result.challenges, LAMBDA c : c.type = "http-01") IN
         IF Len(http01) = 0
         THEN Raised("get_challenge", "IndexError", None)
         ELSE LET challenge == [http01[1] EXCEPT !.token = Sanitize(@)] IN
              Returned("get_challenge",
                       <<challenge, challenge.token,
                         KeyAuthorization(challenge.token, thumbprint)>>)

\* Lines 379-382: get_challenge starts with its new-authz request.
ChallengeFrames(domain, acct, CA) ==
    <<[fn |-> "get_challenge", pc |-> "sent", domain |-> domain, acct |-> acct,
       CA |-> CA],
      SendFrame([resource |-> "new-authz",
                 identifier |-> [type |-> "dns", value |-> domain]],
                acct, CA, Some("new-authz"), None)>>

ChallengeDone(p) ==
    /\ Running(p, "get_challenge", "sent")
    /\ LET r == ChallengeResult(ret[p].val[1], ret[p].val[2], Top(p).acct.thumbprint) IN
       /\ ret' = [ret EXCEPT ![p] = r]
       /\ stack' = IF r.k = "raise" THEN Unwind(p) ELSE Pop(p)
    /\ UNCHANGED <<env, net, caNonce, usr, fx>>

\* --------------------------------------------------------- get_challenges

\* Line 508: the record of one domain.
ChallengeEntry(domain, r) ==
    [domain |-> domain, challenge |-> r[1], token |-> r[2], keyauthorization |-> r[3]]

\* Line 509: the state object.
Session(acct, CA, challenges) ==
    [account_key_type |-> acct.account_key_type,
     account_key_algorithm |-> acct.account_key_algorithm,
     account_key |-> acct.account_key, header |-> acct.header,
     thumbprint |-> acct.thumbprint, CA |-> CA, challenges |-> challenges]

\* Lines 499-503: the key and the CSR are parsed, then register_account is called.
GetChallengesFrames(keyfile, csr, CA, email_address, telephone) ==
    <<[fn |-> "get_challenges", pc |-> "registering", acct |-> Account(keyfile),
       CA |-> CA, csr |-> csr, domains |-> ParseCsr(csr), challenges |-> <<>>],
      RegisterFrame(Account(keyfile), CA, email_address, telephone)>>

\* Lines 504-509: one get_challenge per domain, in order; then the state object
\* is returned.  The result of register_account is not looked at.
GetChallengesLoop(p) ==
    /\ \/ Running(p, "get_challenges", "registering")
       \/ Running(p, "get_challenges", "issuing")
    /\ LET f == Top(p)
           challenges ==
               IF f.pc = "registering" THEN f.challenges
               ELSE Append(f.challenges,
                           ChallengeEntry(f.domains[Len(f.challenges) + 1], ret[p].val))
           g == [f EXCEPT !.challenges = challenges, !.pc = "issuing"]
       IN  IF Len(challenges) < Len(f.domains)
           THEN /\ stack' = [stack EXCEPT ![p] =
                               SubSeq(@, 1, Len(@) - 1) \o <<g>>
                                 \o ChallengeFrames(f.domains[Len(challenges) + 1],
                                                    f.acct, f.CA)]
                /\ UNCHANGED <<ret, usr>>
           ELSE /\ stack' = Pop(p)
                /\ ret' = [ret EXCEPT ![p] =
                             Returned("get_challenges", Session(f.acct, f.CA, challenges))]
                /\ usr' = [usr EXCEPT !.held = Some(Session(f.acct, f.CA, challenges))]
    /\ UNCHANGED <<env, net, caNonce, fx>>

\* ------------------------------------------------------- notify_challenge

\* A notify_challenge that takes any success status but 202 for success too.
NotifyResultCreatedToo(code, result) ==
    IF code # Some(202) /\ code # Some(201)
    THEN Raised("notify_challenge", "ValueError", Some(<<code, result>>))
    ELSE Returned("notify_challenge", None)

\* A notify_challenge that goes on whatever the CA answered.
NotifyResultSwallowsError(code, result) == Returned("notify_challenge", None)

\* Lines 419-420: the result of notify_challenge for the status and body that
\* _send_signed_request returned.
NotifyResult(code, result) ==
    IF code # Some(202)
    THEN Raised("notify_challenge", "ValueError", Some(<<code, result>>))
    ELSE Returned("notify_challenge", None)

\* Lines 415-418: notify_challenge starts with its signed request to the
\* challenge's URI.
NotifyFrames(domain, state, challenge, keyauthorization) ==
    <<[fn |-> "notify_challenge", pc |-> "sent", domain |-> domain],
      SendFrame([resource |-> "challenge", keyAuthorization |-> keyauthorization],
                state, state.CA, None, Some(challenge.uri))>>

NotifyDone(p) ==
    /\ Running(p, "notify_challenge", "sent")
    /\ LET r == NotifyResult(ret[p].val[1], ret[p].val[2]) IN
       /\ ret' = [ret EXCEPT ![p] = r]
       /\ stack' = IF r.k = "raise" THEN Unwind(p) ELSE Pop(p)
    /\ UNCHANGED <<env, net, caNonce, usr, fx>>

\* ------------------------------------------------------ notify_challenges

\* Lines 555-560 for the i-th entry of the state.
NotifyEntryFrames(state, i) ==
    LET e == state.challenges[i] IN
    NotifyFrames(e.domain, state, e.challenge, e.keyauthorization)

\* The frames of a call of notify_challenges(state): the loop is at its first
\* entry, or over when there is none.
NotifyAllFrames(state) ==
    <<[fn |-> "notify_challenges", pc |-> "loop", state |-> state, done |-> 0]>>
        \o (IF Len(state.challenges) > 0 THEN NotifyEntryFrames(state, 1) ELSE <<>>)

\* notify_challenge has returned for one entry (or there is none): the next
\* entry is notified, or the loop ends.
NotifyLoop(p) ==
    /\ Running(p, "notify_challenges", "loop")
    /\ LET f == Top(p)
           done == IF Len(f.state.challenges) = 0 THEN 0 ELSE f.done + 1
       IN  IF done < Len(f.state.challenges)
           THEN /\ stack' = [stack EXCEPT ![p] =
                               SubSeq(@, 1, Len(@) - 1) \o <<[f EXCEPT !.done = done]>>
                                 \o NotifyEntryFrames(f.state, done + 1)]
                /\ UNCHANGED ret
           ELSE /\ stack' = Pop(p)
                /\ ret' = [ret EXCEPT ![p] = Returned("notify_challenges", None)]
    /\ UNCHANGED <<env, net, caNonce, usr, fx>>

\* ----------------------------------------------- check_challenge_verified

VerifiedFrame(domain, challenge, wait) ==
    [fn |-> "check_challenge_verified", pc |-> "poll", domain |-> domain,
     challenge |-> challenge, wait |-> wait, polls |-> 0]

\* A check_challenge_verified that reports a failed challenge as "not yet
\* verified" instead of raising.
VerifiedResultFailedIsFalse(domain, challenge_status, wait) ==
    IF challenge_status.status = "pending"
    THEN IF wait THEN [k |-> "sleep"]
         ELSE Returned("check_challenge_verified", FALSE)
    ELSE IF challenge_status.status = "valid"
    THEN Returned("check_challenge_verified", TRUE)
    ELSE Returned("check_challenge_verified", FALSE)

\* A check_challenge_verified that gives up at the first "pending".
VerifiedResultGivesUp(domain, challenge_status, wait) ==
    IF challenge_status.status = "valid"
    THEN Returned("check_challenge_verified", TRUE)
    ELSE IF challenge_status.status = "pending"
    THEN Returned("check_challenge_verified", FALSE)
    ELSE Raised("check_challenge_verified", "ValueError",
                Some(<<domain, challenge_status>>))

\* Lines 439-447: what one answer of the CA leads to: "sleep" (poll again after
\* time.sleep(2)), a return or an exception.
VerifiedResult(domain, challenge_status, wait) ==
    IF challenge_status.status = "pending"
    THEN IF wait THEN [k |-> "sleep"]
         ELSE Returned("check_challenge_verified", FALSE)
    ELSE IF challenge_status.status = "valid"
    THEN Returned("check_challenge_verified", TRUE)
    ELSE Raised("check_challenge_verified", "ValueError",
                Some(<<domain, challenge_status>>))

\* Lines 433-447: one round of the loop.  An HTTPError becomes a ValueError with
\* its code and document; a URLError has no .code (AttributeError).
Poll(p) ==
    /\ Running(p, "check_challenge_verified", "poll")
    /\ LET f == Top(p)
           get(ans) == [by |-> p, m |-> "GET", url |-> f.challenge.uri,
                        nonce |-> None, req |-> None, ans |-> ans]
       IN
       \/ \E e \in {HttpError(404, "error document"), UrlError} :
            /\ net' = Sent(p, get(e))
            /\ stack' = Unwind(p)
            /\ ret' = [ret EXCEPT ![p] =
                         IF e.t = "http_error"
                         THEN Raised("check_challenge_verified", "ValueError",
                                     Some(<<e.code, e.body>>))
                         ELSE Raised("check_challenge_verified", "AttributeError", None)]
            /\ UNCHANGED fx
       \/ \E st \in env.statuses :
            LET doc == [status |-> st]
                r == VerifiedResult(f.domain, doc, f.wait)
            IN  /\ st = "pending" => f.polls < MaxPending
                /\ net' = Sent(p, get(Ok(200, doc)))
                /\ IF r.k = "sleep"
                   THEN /\ stack' = Goto(p, [f EXCEPT !.polls = @ + 1])
                        /\ fx' = [fx EXCEPT !.slept = @ + 1]
                        /\ UNCHANGED ret
                   ELSE /\ stack' = IF r.k = "raise" THEN Unwind(p) ELSE Pop(p)
                        /\ ret' = [ret EXCEPT ![p] = r]
                        /\ UNCHANGED fx
    /\ UNCHANGED <<env, caNonce, usr>>

\* --------------------------------------------------- retrieve_certificate

\* Line 460: "-----BEGIN CERTIFICATE-----" and "-----END CERTIFICATE-----".
BeginCertificate ==
    <<45, 45, 45, 45, 45, 66, 69, 71, 73, 78, 32, 67, 69, 82, 84, 73, 70, 73, 67,
      65, 84, 69, 45, 45, 45, 45, 45>>
EndCertificate ==
    <<45, 45, 45, 45, 45, 69, 78, 68, 32, 67, 69, 82, 84, 73, 70, 73, 67, 65, 84,
      69, 45, 45, 45, 45, 45>>

\* Lines 458-460: the result of retrieve_certificate for the status and body
\* that _send_signed_request returned.
RetrieveResult(code, result) ==
    IF code # Some(201)
    THEN Raised("retrieve_certificate", "ValueError", Some(<<code, result>>))
    ELSE Returned("retrieve_certificate",
                  BeginCertificate \o <<10>>
                    \o JoinLines(TextwrapWrap(Base64Encode(result), 64))
                    \o <<10>> \o EndCertificate \o <<10>>)

\* Lines 453-457: the CSR is converted to DER and the new-cert request is sent.
RetrieveFrames(csr, state) ==
    <<[fn |-> "retrieve_certificate", pc |-> "sent"],
      SendFrame([resource |-> "new-cert", csr |-> B64([der |-> csr])],
                state, state.CA, Some("new-cert"), None)>>

RetrieveDone(p) ==
    /\ Running(p, "retrieve_certificate", "sent")
    /\ LET r == RetrieveResult(ret[p].val[1], ret[p].val[2]) IN
       /\ ret' = [ret EXCEPT ![p] = r]
       /\ stack' = IF r.k = "raise" THEN Unwind(p) ELSE Pop(p)
    /\ UNCHANGED <<env, net, caNonce, usr, fx>>

\* -------------------------------------------------------- check_challenges

\* A check_challenges that polls without waiting.
CheckEntryFrameNoWait(state, i) ==
    [fn |-> "check_challenge_verified", pc |-> "poll",
     domain |-> state.challenges[i].domain,
     challenge |-> state.challenges[i].challenge, wait |-> FALSE, polls |-> 0]

\* Lines 573-576 for the i-th entry of the state.
CheckEntryFrame(state, i) ==
    VerifiedFrame(state.challenges[i].domain, state.challenges[i].challenge, TRUE)

\* The frames of a call of check_challenges(state, csr, inform): the first
\* entry is polled, or the certificate is retrieved when there is none.
CheckAllFrames(state, csr, inform) ==
    LET f == [fn |-> "check_challenges", pc |-> "polling", state |-> state,
              csr |-> csr, inform |-> inform, done |-> 0]
    IN  IF Len(state.challenges) > 0
        THEN <<f, CheckEntryFrame(state, 1)>>
        ELSE <<[f EXCEPT !.pc = "retrieving"]>> \o RetrieveFrames(csr, state)

\* Lines 576-579: check_challenge_verified has returned for one entry: inform is
\* called with the domain when it is callable; then the next entry is polled,
\* or the certificate is retrieved.
CheckLoop(p) ==
    /\ Running(p, "check_challenges", "polling")
    /\ LET f == Top(p)
           done == f.done + 1
           g == [f EXCEPT !.done = done]
           below == SubSeq(stack[p], 1, Len(stack[p]) - 1)
       IN  /\ fx' = IF f.inform
                    THEN [fx EXCEPT !.informed = Append(@, f.state.challenges[done].domain)]
                    ELSE fx
           /\ stack' = [stack EXCEPT ![p] =
                          IF done < Len(f.state.challenges)
                          THEN below \o <<g, CheckEntryFrame(f.state, done + 1)>>
                          ELSE below \o <<[g EXCEPT !.pc = "retrieving"]>>
                                 \o RetrieveFrames(f.csr, f.state)]
    /\ UNCHANGED <<env, ret, net, caNonce, usr>>

\* Line 579: the certificate is returned.
CheckDone(p) ==
    /\ Running(p, "check_challenges", "retrieving")
    /\ stack' = Pop(p)
    /\ ret' = [ret EXCEPT ![p] = Returned("check_challenges", ret[p].val)]
    /\ UNCHANGED <<env, net, caNonce, usr, fx>>

\* ------------------------------------------------- the challenge files

\* Lines 61-67: the path of the token file.  folder_for_domain is a string or
\* a callable that gives the folder of a domain.
WellKnownPath(domain, token, folder_for_domain) ==
    [folder |-> IF folder_for_domain.callable
                THEN <<folder_for_domain.name, domain>>
                ELSE <<folder_for_domain.name, <<>>>>,
     file |-> token]

\* Lines 165-168: the file has the content, whatever it had before.
WriteFile(files, filename, content) ==
    {f \in files : f.path # filename} \cup {[path |-> filename, content |-> content]}

\* The frame of write_challenges and of remove_challenges: `done` entries of
\* the state have been dealt with.
FilesFrame(fn, state, folder_for_domain) ==
    [fn |-> fn, pc |-> "loop", state |-> state,
     folder_for_domain |-> folder_for_domain, done |-> 0]

\* Lines 519-525: the key authorization of the next entry is written to its
\* token file (open() may fail); after the last entry the call returns.
WriteLoop(p) ==
    /\ Running(p, "write_challenges", "loop")
    /\ LET f == Top(p) IN
       IF f.done = Len(f.state.challenges)
       THEN /\ stack' = Pop(p)
            /\ ret' = [ret EXCEPT ![p] = Returned("write_challenges", None)]
            /\ UNCHANGED usr
       ELSE LET e == f.state.challenges[f.done + 1]
                wellknown_path == WellKnownPath(e.domain, e.token, f.folder_for_domain)
            IN  \/ /\ usr' = [usr EXCEPT
                                !.files = WriteFile(@, wellknown_path, e.keyauthorization)]
                   /\ stack' = Goto(p, [f EXCEPT !.done = @ + 1])
                   /\ UNCHANGED ret
                \/ /\ stack' = Unwind(p)
                   /\ ret' = [ret EXCEPT ![p] =
                                Raised("write_file", "IOError", Some(wellknown_path))]
                   /\ UNCHANGED usr
    /\ UNCHANGED <<env, net, caNonce, fx>>

\* Lines 534-539: os.remove removes the token file of the next entry and
\* raises OSError when there is no such file; nothing catches it.
RemoveLoop(p) ==
    /\ Running(p, "remove_challenges", "loop")
    /\ LET f == Top(p) IN
       IF f.done = Len(f.state.challenges)
       THEN /\ stack' = Pop(p)
            /\ ret' = [ret EXCEPT ![p] = Returned("remove_challenges", None)]
            /\ UNCHANGED usr
       ELSE LET e == f.state.challenges[f.done + 1]
                wellknown_path == WellKnownPath(e.domain, e.token, f.folder_for_domain)
            IN  IF \E x \in usr.files : x.path = wellknown_path
                THEN /\ usr' = [usr EXCEPT !.files = {x \in @ : x.path # wellknown_path}]
                     /\ stack' = Goto(p, [f EXCEPT !.done = @ + 1])
                     /\ UNCHANGED ret
                ELSE /\ stack' = Unwind(p)
                     /\ ret' = [ret EXCEPT ![p] =
                                  Raised("os.remove", "OSError", Some(wellknown_path))]
                     /\ UNCHANGED usr
    /\ UNCHANGED <<env, net, caNonce, fx>>

\* ------------------------------------- check_challenge, verify_challenges

\* Line 395: "http://{0}/.well-known/acme-challenge/{1}"; the text after
\* "http://" is the URL's name.
GetWellknownUrl(domain, token) ==
    [site |-> "http://", path |-> <<>>,
     name |-> domain
               \o <<47, 46, 119, 101, 108, 108, 45, 107, 110, 111, 119, 110, 47, 97, 99,
                    109, 101, 45, 99, 104, 97, 108, 108, 101, 110, 103, 101, 47>>
               \o token,
     n |-> 0]

\* The white space of str.strip() among the first 128 characters.
WhiteSpace == {9, 10, 11, 12, 13, 28, 29, 30, 31, 32}

\* A strip that leaves the text as it is.
StripNothing(text) == text

\* str.strip()
RECURSIVE Strip(_)
Strip(text) ==
    IF text = <<>> THEN <<>>
    ELSE IF text[1] \in WhiteSpace THEN Strip(Tail(text))
    ELSE IF text[Len(text)] \in WhiteSpace THEN Strip(SubSeq(text, 1, Len(text) - 1))
    ELSE text

\* Lines 405-409: what check_challenge returns for the answer to its GET.
CheckChallenge(answer, keyauthorization) ==
    IF answer.t = "ok" THEN Strip(answer.body) = keyauthorization ELSE FALSE

\* What the web server of a domain may send for the token file of a key
\* authorization.
Page(kind, keyauthorization) ==
    CASE kind = "exact" -> keyauthorization
      [] kind = "padded" -> <<32, 10>> \o keyauthorization \o <<13, 10, 9>>
      [] kind = "longer" -> keyauthorization \o <<32, 120>>
      [] kind = "split" -> <<keyauthorization[1], 32>> \o Tail(keyauthorization)
      [] kind = "empty" -> <<10>>

VerifyFrame(state) == [fn |-> "verify_challenges", pc |-> "loop", state |-> state, done |-> 0]

\* Lines 545-550: check_challenge GETs the token file of the next entry;
\* verify_challenges raises when it returns False and returns after the last
\* entry.
VerifyLoop(p) ==
    /\ Running(p, "verify_challenges", "loop")
    /\ LET f == Top(p) IN
       IF f.done = Len(f.state.challenges)
       THEN /\ stack' = Pop(p)
            /\ ret' = [ret EXCEPT ![p] = Returned("verify_challenges", None)]
            /\ UNCHANGED net
       ELSE LET e == f.state.challenges[f.done + 1]
                wellknown_url == GetWellknownUrl(e.domain, e.token)
            IN  \E answer \in {Ok(200, Page(kind, e.keyauthorization)) : kind \in env.pages}
                                \cup {HttpError(404, "error document"), UrlError} :
                   /\ net' = Sent(p, [by |-> p, m |-> "GET", url |-> wellknown_url,
                                          nonce |-> None, req |-> None, ans |-> answer])
                   /\ IF CheckChallenge(answer, e.keyauthorization)
                      THEN /\ stack' = Goto(p, [f EXCEPT !.done = @ + 1])
                           /\ UNCHANGED ret
                      ELSE /\ stack' = Unwind(p)
                           /\ ret' = [ret EXCEPT ![p] =
                                        Raised("verify_challenges", "ValueError",
                                               Some(wellknown_url))]
    /\ UNCHANGED <<env, caNonce, usr, fx>>

\* ------------------------------------------- concurrent signed requests

CA0 == "https://ca"

\* A thread that has not called anything yet calls _send_signed_request, with
\* a resource key or with an explicit URL.
SendCall(p) ==
    /\ stack[p] = <<>>
    /\ ret[p] = NoRet
    /\ \E kf \in env.keyfiles, target \in env.targets :
         stack' = Push(p, SendFrame([resource |-> target.resource], Account(kf), CA0,
                                    target.key, target.url))
    /\ UNCHANGED <<env, ret, net, caNonce, usr, fx>>

Targets ==
    {[resource |-> "new-reg", key |-> Some("new-reg"), url |-> None],
     [resource |-> "challenge", key |-> None, url |-> Some(U("https://ca", <<"/chal/1">>))]}

\* Directory documents: with every resource, and without new-nonce and new-reg.
DirFull ==
    [k \in {"new-reg", "new-authz", "new-cert", "new-nonce"} |->
        U("https://ca", <<"/dir/", k>>)]
DirPartial ==
    [k \in {"new-authz", "new-cert"} |-> U("https://ca", <<"/dir/", k>>)]

SendEnv ==
    [codes |-> {201},
     bodies |-> [r \in {"new-reg", "challenge"} |-> {"body"}],
     dirDocs |-> {DirPartial},
     dirNonce |-> BOOLEAN,
     newNonce |-> BOOLEAN,
     sigShapes |-> {[zeros |-> <<0, 0>>, top |-> 128]},
     keyfiles |-> {"rsa.key"},
     targets |-> Targets,
     python |-> {2, 3}]

InitSend ==
    /\ env = SendEnv
    /\ stack = [p \in Threads |-> <<>>]
    /\ ret = [p \in Threads |-> NoRet]
    /\ net = [p \in Threads |-> <<>>]
    /\ caNonce = 0
    /\ usr = NoUser
    /\ fx = NoFx

NextSend == \E p \in Threads : SendCall(p) \/ SendStep(p)

SpecSend == InitSend /\ [][NextSend]_vars

\* The POSTs of thread p, and the nonces the responses to its GETs carried.
Posts(p) == {i \in 1..Len(net[p]) : net[p][i].m = "POST"}
Obtained(p) ==
    {net[p][i].nonce : i \in {j \in 1..Len(net[p]) : net[p][j].m = "GET"}} \ {None}

\* C1: no two POSTed signed requests carry the same nonce; every call uses
\* exactly one nonce, which it obtained itself during that call from its
\* directory fetch or its new-nonce fetch (each thread makes one call).
C1_NonceNeverShared ==
    \A p, q \in Threads : \A i \in Posts(p) : \A j \in Posts(q) :
        (q # p \/ j # i) =>
            /\ net[p][i].nonce # net[q][j].nonce
            /\ net[p][i].nonce \in Obtained(p)
            /\ net[q][j].nonce \in Obtained(q)

\* Two calls have each POSTed a request (C1's case).
C1_TwoPosts ==
    \E p, q \in Threads : p # q /\ Posts(p) # {} /\ Posts(q) # {}

\* What the code does keep: a nonce taken from a response is used by the call
\* that received it and by no other.
NonceNotSharedWhenPresent ==
    \A p \in Threads : \A i \in Posts(p) :
        ~IsNone(net[p][i].nonce) =>
            /\ net[p][i].nonce \in Obtained(p)
            /\ \A q \in Threads : \A j \in Posts(q) :
                 (q # p \/ j # i) => net[q][j].nonce # net[p][i].nonce

\* ------------------------------------------------ one signed request

\* Shapes of DER signatures: one to three integers, each with up to
\* MaxLeadZero leading zero bytes, and a first byte below or above 0x80.
SigShapes ==
    {[zeros |-> z, top |-> t] :
        z \in {q \in SeqsUpTo(0..MaxLeadZero, 3) : Len(q) > 0}, t \in {1, 128, 255}}

CallEnv ==
    [codes |-> {201, 409},
     bodies |-> [r \in {"new-reg", "challenge"} |-> {"body"}],
     dirDocs |-> {DirFull, DirPartial},
     dirNonce |-> BOOLEAN,
     newNonce |-> BOOLEAN,
     sigShapes |-> SigShapes,
     keyfiles |-> KeyFiles,
     targets |-> Targets,
     python |-> {2, 3}]

InitCall ==
    /\ env = CallEnv
    /\ stack = [p \in Threads |-> <<>>]
    /\ ret = [p \in Threads |-> NoRet]
    /\ net = [p \in Threads |-> <<>>]
    /\ caNonce = 0
    /\ usr = NoUser
    /\ fx = NoFx

NextCall == SendCall(1) \/ SendStep(1)

SpecCall == InitCall /\ [][NextCall]_vars

\* r and s of a DER signature are in the range of the curve: two integers, each
\* positive and no longer than the curve's byte length.
ValidRS(alg, der) ==
    /\ Len(der) = 2
    /\ \A i \in 1..2 : Len(der[i]) \in 1..alg.bytelength /\ der[i][1] # 0

\* Big-endian bytes padded on the left with zero bytes to n bytes.
PadLeft(bytes, n) == [i \in 1..(n - Len(bytes)) |-> 0] \o bytes

\* C10: for an EC account key every DER signature holding two integers in the
\* range of the curve is encoded as r then s, each zero-padded to the curve's
\* byte length (2 x bytelength bytes), and the malformed-signature error is
\* raised, with nothing sent, only when the DER text does not hold exactly two
\* integers.
C10_EcSignatureEncoding ==
    \A p \in Threads :
        /\ (ret[p].k = "raise" /\ ret[p].exc = "Exception")
              => ~ValidRS(Val(ret[p].detail).alg, Val(ret[p].detail).der)
        /\ Running(p, "_send_signed_request", "post") /\ ~IsNone(Top(p).der)
              => LET n == Top(p).account_key_algorithm.bytelength
                     der == Val(Top(p).der)
                 IN  /\ ValidRS(Top(p).account_key_algorithm, der)
                     /\ Val(Top(p).out) = PadLeft(der[1], n) \o PadLeft(der[2], n)
        /\ \A i \in Posts(p) :
              ~IsNone(Val(net[p][i].req).der)
                 => ValidRS(Account(Val(net[p][i].req).data.header.jwk.pub).account_key_algorithm,
                            Val(net[p][i].req).der)

\* ------------------------------------- serialize_state, deserialize_state

\* Python values, each with its type.  A str says how the model writes its
\* text (w): as a name, as character codes or as a URL.
PyStr(w, v) == [t |-> "str", w |-> w, v |-> v]
PyInt(n) == [t |-> "int", v |-> n]
PyBool(b) == [t |-> "bool", v |-> b]
PyNone == [t |-> "NoneType"]
PyList(q) == [t |-> "list", v |-> q]
PyDict(d) == [t |-> "dict", v |-> d]
PyInstance(cls, attributes) == [t |-> "instance", cls |-> cls, v |-> attributes]

\* JSON text, by its parse tree; Malformed is text that is no JSON document.
JString(w, v) == [j |-> "string", w |-> w, v |-> v]
JNumber(n) == [j |-> "number", v |-> n]
JTrue == [j |-> "true"]
JFalse == [j |-> "false"]
JNull == [j |-> "null"]
JArray(items) == [j |-> "array", items |-> items]
JObject(members) == [j |-> "object", members |-> members]
Malformed == [j |-> "malformed"]

\* The state object of line 509 as the Python value it is: a dict of str, of
\* the header dict, of the list of challenge dicts, and of the object of class
\* RSA or ECC that parse_account_key returned as the algorithm.
PyState(state) ==
    LET url(u) == PyStr("url", u)
        entry(e) ==
            PyDict([domain |-> PyStr("codes", e.domain),
                    challenge |-> PyDict([type |-> PyStr("name", e.challenge.type),
                                          token |-> PyStr("codes", e.challenge.token),
                                          uri |-> url(e.challenge.uri)]),
                    token |-> PyStr("codes", e.token),
                    keyauthorization |-> PyStr("codes", e.keyauthorization)])
    IN  PyDict([account_key_type |-> PyStr("name", state.account_key_type),
                account_key_algorithm |->
                    PyInstance(state.account_key_algorithm.class,
                               state.account_key_algorithm),
                account_key |-> PyStr("name", state.account_key),
                header |-> PyDict([alg |-> PyStr("name", state.header.alg),
                                   jwk |-> PyDict([kty |-> PyStr("name", state.header.jwk.kty),
                                                   pub |-> PyStr("name", state.header.jwk.pub)])]),
                thumbprint |-> PyStr("codes", state.thumbprint),
                CA |-> PyStr("name", state.CA),
                challenges |-> PyList([i \in 1..Len(state.challenges) |->
                                          entry(state.challenges[i])])])

\* The keys of the dicts, in the order sort_keys puts them (the order of their
\* characters' codes: capitals come before small letters).
KeyOrder ==
    <<"CA", "account_key", "account_key_algorithm", "account_key_type", "alg",
      "challenge", "challenges", "domain", "extra", "header", "jwk",
      "keyauthorization", "kty", "pub", "thumbprint", "token", "type", "uri">>

\* json.dumps knows str, int, bool, None, list and dict; for anything else its
\* default() raises TypeError.
RECURSIVE Serializable(_)
Serializable(value) ==
    CASE value.t \in {"str", "int", "bool", "NoneType"} -> TRUE
      [] value.t = "list" -> \A i \in 1..Len(value.v) : Serializable(value.v[i])
      [] value.t = "dict" -> \A k \in DOMAIN value.v : Serializable(value.v[k])
      [] OTHER -> FALSE

\* json.dumps(value, sort_keys=True) of a value it can write.
RECURSIVE Encode(_)
Encode(value) ==
    CASE value.t = "str" -> JString(value.w, value.v)
      [] value.t = "int" -> JNumber(value.v)
      [] value.t = "bool" -> IF value.v THEN JTrue ELSE JFalse
      [] value.t = "NoneType" -> JNull
      [] value.t = "list" -> JArray([i \in 1..Len(value.v) |-> Encode(value.v[i])])
      [] value.t = "dict" ->
            LET keys == SelectSeq(KeyOrder, LAMBDA k : k \in DOMAIN value.v) IN
            JObject([i \in 1..Len(keys) |->
                        [key |-> keys[i], value |-> Encode(value.v[keys[i]])]])

\* json.loads(text) of well-formed text; of two members with one key the later
\* one counts.
RECURSIVE Decode(_)
Decode(text) ==
    CASE text.j = "string" -> PyStr(text.w, text.v)
      [] text.j = "number" -> PyInt(text.v)
      [] text.j = "true" -> PyBool(TRUE)
      [] text.j = "false" -> PyBool(FALSE)
      [] text.j = "null" -> PyNone
      [] text.j = "array" -> PyList([i \in 1..Len(text.items) |-> Decode(text.items[i])])
      [] text.j = "object" ->
            LET m == text.members
                last(k) == CHOOSE i \in 1..Len(m) :
                              m[i].key = k /\ \A n \in (i + 1)..Len(m) : m[n].key # k
            IN  PyDict([k \in {m[i].key : i \in 1..Len(m)} |-> Decode(m[last(k)].value)])

\* Line 480.
serialize_state(state) ==
    IF Serializable(state)
    THEN Returned("serialize_state", Encode(state))
    ELSE Raised("serialize_state", "TypeError", Some("is not JSON serializable"))

\* Line 489: the keys a state must have, all but the one left out.
RequiredKeysButCA ==
    {"account_key", "account_key_type", "account_key_algorithm", "header",
     "thumbprint", "challenges"}

\* Line 489: the keys a state must have.
RequiredKeys ==
    {"account_key", "account_key_type", "account_key_algorithm", "header",
     "thumbprint", "CA", "challenges"}

\* Lines 488-491.  json.loads raises a ValueError of its own for text that is
\* no JSON document.
deserialize_state(serialized_state) ==
    IF serialized_state.j = "malformed"
    THEN Raised("deserialize_state", "ValueError", Some("No JSON object could be decoded"))
    ELSE LET result == Decode(serialized_state) IN
         IF result.t # "dict" \/ \E k \in RequiredKeys : k \notin DOMAIN result.v
         THEN Raised("deserialize_state", "ValueError", Some("Not a valid serialized state!"))
         ELSE Returned("deserialize_state", result)

\* ------------------------------------------------------ the calling program

\* The program (thread 1) calls the library's functions one after the other
\* (a single function, once, in the scenarios that enumerate its inputs).
\* The requests, the CA's nonce count and the effects are those of the call
\* that is running or was made last: they start afresh with every call.
Idle == stack[1] = <<>>
Begin(call, frames) ==
    /\ Idle
    /\ env.once => ret[1] = NoRet
    /\ fx' = [NoFx EXCEPT !.call = call]
    /\ stack' = [stack EXCEPT ![1] = frames]
    /\ ret' = [ret EXCEPT ![1] = NoRet]
    /\ net' = [net EXCEPT ![1] = <<>>]
    /\ caNonce' = 0
    /\ UNCHANGED env

\* get_challenges(account_key, csr, CA, email_address, telephone), by a program
\* that holds no state yet
CallGetChallenges ==
    /\ IsNone(usr.held)
    /\ \E kf \in env.keyfiles, csr \in env.csrs, c \in env.contacts :
        /\ Begin([fn |-> "get_challenges", account_key |-> kf, csr |-> csr],
                 GetChallengesFrames(kf, csr, CA0, c.email_address, c.telephone))
        /\ UNCHANGED usr

\* notify_challenges(state) with the state the program holds
CallNotify ==
    /\ ~IsNone(usr.held)
    /\ Begin([fn |-> "notify_challenges", state |-> Val(usr.held)],
             NotifyAllFrames(Val(usr.held)))
    /\ UNCHANGED usr

\* check_challenges(state, csr, inform) with the state the program holds
CallCheck ==
    /\ ~IsNone(usr.held)
    /\ \E inform \in BOOLEAN :
         Begin([fn |-> "check_challenges", state |-> Val(usr.held), inform |-> inform],
               CheckAllFrames(Val(usr.held), "csr file", inform))
    /\ UNCHANGED usr

\* check_challenge_verified(domain, challenge, wait) for an entry of the state
CallVerified ==
    /\ ~IsNone(usr.held)
    /\ \E i \in 1..Len(Val(usr.held).challenges), wait \in BOOLEAN :
         LET e == Val(usr.held).challenges[i] IN
         Begin([fn |-> "check_challenge_verified", domain |-> e.domain,
                challenge |-> e.challenge, wait |-> wait],
               <<VerifiedFrame(e.domain, e.challenge, wait)>>)
    /\ UNCHANGED usr

\* serialize_state(state) with a state the program holds: the one
\* get_challenges returned or the one deserialize_state returned.  The text is
\* kept when the call returns.
CallSerialize ==
    /\ Idle
    /\ \E state \in (IF IsNone(usr.held) THEN {} ELSE {PyState(Val(usr.held))})
                      \cup (IF IsNone(usr.loaded) THEN {} ELSE {Val(usr.loaded)}) :
         LET r == serialize_state(state) IN
         /\ fx' = [NoFx EXCEPT !.call = [fn |-> "serialize_state", state |-> state]]
         /\ ret' = [ret EXCEPT ![1] = r]
         /\ usr' = IF r.k = "return" THEN [usr EXCEPT !.blob = Some(r.val)] ELSE usr
    /\ net' = [net EXCEPT ![1] = <<>>]
    /\ caNonce' = 0
    /\ UNCHANGED <<env, stack>>

\* deserialize_state(serialized_state) with a text the program was given (as
\* its first call, where the texts are enumerated) or the one it kept.  The
\* state is held when the call returns.
CallDeserialize ==
    /\ Idle
    /\ \E text \in (IF env.once /\ ret[1] # NoRet THEN {} ELSE env.texts)
                     \cup (IF IsNone(usr.blob) THEN {} ELSE {Val(usr.blob)}) :
         LET r == deserialize_state(text) IN
         /\ fx' = [NoFx EXCEPT !.call = [fn |-> "deserialize_state",
                                         serialized_state |-> text]]
         /\ ret' = [ret EXCEPT ![1] = r]
         /\ usr' = IF r.k = "return" THEN [usr EXCEPT !.loaded = Some(r.val)] ELSE usr
    /\ net' = [net EXCEPT ![1] = <<>>]
    /\ caNonce' = 0
    /\ UNCHANGED <<env, stack>>

\* CSRs: no name at all, one name, the spec's example (the common name repeated
\* among the alternative names), names out of order with an IP entry between.
Dns(d) == [kind |-> "DNS", value |-> d]
Csrs ==
    {[cn |-> None, sans |-> <<>>],
     [cn |-> Some(<<97>>), sans |-> <<>>],
     [cn |-> Some(<<97>>), sans |-> <<Dns(<<97>>), Dns(<<119, 46, 97>>)>>],
     [cn |-> None, sans |-> <<Dns(<<98>>), [kind |-> "IP", value |-> <<49>>], Dns(<<97>>)>>]}

\* What the CA lists for an authorization: one http-01 challenge whose token
\* needs rewriting, several challenges with two of type http-01, none of it.
AuthzTemplates ==
    {<<[type |-> "http-01", token |-> <<97, 98, 43, 99, 47, 100>>]>>,
     <<[type |-> "dns-01", token |-> <<120>>], [type |-> "http-01", token |-> <<45, 95>>],
       [type |-> "http-01", token |-> <<61>>]>>,
     <<[type |-> "dns-01", token |-> <<120>>]>>}

FlowEnv ==
    [codes |-> {201, 202, 403, 409},
     bodies |-> [r \in {"new-reg", "new-authz", "challenge", "new-cert"} |->
                   CASE r = "new-authz" -> AuthzTemplates
                     [] r = "new-cert" -> {<<48, 130>>}
                     [] OTHER -> {"document"}],
     dirDocs |-> {DirPartial},
     dirNonce |-> BOOLEAN,
     newNonce |-> {TRUE},
     sigShapes |-> {[zeros |-> <<0, 0>>, top |-> 128], [zeros |-> <<0, 1>>, top |-> 1]},
     keyfiles |-> {"rsa.key", "p256.key"},
     targets |-> {},
     python |-> {2, 3},
     statuses |-> {"pending", "valid", "invalid"},
     csrs |-> Csrs,
     once |-> FALSE,
     contacts |-> {[email_address |-> Some("a@b"), telephone |-> None]}]

Init ==
    /\ env = FlowEnv
    /\ stack = [p \in Threads |-> <<>>]
    /\ ret = [p \in Threads |-> NoRet]
    /\ net = [p \in Threads |-> <<>>]
    /\ caNonce = 0
    /\ usr = NoUser
    /\ fx = NoFx

LibraryStep(p) ==
    \/ SendStep(p)
    \/ RegisterProbe(p) \/ RegisterDone(p)
    \/ ChallengeDone(p) \/ GetChallengesLoop(p)
    \/ NotifyDone(p) \/ NotifyLoop(p)
    \/ Poll(p)
    \/ RetrieveDone(p)
    \/ CheckLoop(p) \/ CheckDone(p)

Next ==
    \/ CallGetChallenges \/ CallNotify \/ CallCheck \/ CallVerified
    \/ CallSerialize
    \/ LibraryStep(1)

Spec == Init /\ [][Next]_vars

\* The interpreter goes on with the call it is in: a step of the library that
\* can be taken is taken.  (The CA answers "pending" MaxPending times to the
\* polls of one call at most: every status leaves "pending" in the end.)
SpecLive == Init /\ [][Next]_vars /\ WF_vars(LibraryStep(1))

\* --------------------------------------------------- tokens of challenges

\* get_challenge(domain, header, CA, ...) called by the program itself.
CallGetChallenge ==
    /\ \E kf \in env.keyfiles, csr \in env.csrs :
         \E i \in 1..Len(ParseCsr(csr)) :
            Begin([fn |-> "get_challenge", domain |-> ParseCsr(csr)[i], account_key |-> kf],
                  ChallengeFrames(ParseCsr(csr)[i], Account(kf), CA0))
    /\ UNCHANGED usr

\* Characters of tokens: letters, a digit, "-" and "_", characters outside the
\* class, among them the neighbours of its ranges ("@", "[", "`", "{", "/", ":").
TokenAlphabet == {97, 90, 48, 45, 95, 43, 47, 61, 64, 91, 96, 123, 58}
Tokens == SeqsUpTo(TokenAlphabet, MaxTokenLen)

TokenEnv ==
    [FlowEnv EXCEPT
        !.codes = {201, 403},
        !.bodies = [r \in DOMAIN FlowEnv.bodies |->
                      IF r = "new-authz"
                      THEN {<<[type |-> "http-01", token |-> t]>> : t \in Tokens}
                      ELSE FlowEnv.bodies[r]],
        !.keyfiles = {"rsa.key"},
        !.csrs = {[cn |-> Some(<<97>>), sans |-> <<>>]},
        !.once = TRUE]

InitToken ==
    /\ env = TokenEnv
    /\ stack = [p \in Threads |-> <<>>]
    /\ ret = [p \in Threads |-> NoRet]
    /\ net = [p \in Threads |-> <<>>]
    /\ caNonce = 0
    /\ usr = NoUser
    /\ fx = NoFx

NextToken == CallGetChallenge \/ SendStep(1) \/ ChallengeDone(1)

SpecToken == InitToken /\ [][NextToken]_vars

\* --------------------------------------------------------- names of CSRs

CsrDomains == {<<97>>, <<97, 98>>, <<98>>}
SanEntries == {Dns(d) : d \in CsrDomains} \cup {[kind |-> "IP", value |-> <<49>>]}
AllCsrs ==
    {[cn |-> cn, sans |-> sans] :
        cn \in {None} \cup {Some(d) : d \in CsrDomains},
        sans \in SeqsUpTo(SanEntries, MaxSans)}

CsrEnv ==
    [FlowEnv EXCEPT
        !.codes = {201, 403},
        !.bodies = [r \in DOMAIN FlowEnv.bodies |->
                      IF r = "new-authz"
                      THEN {<<[type |-> "http-01", token |-> <<116>>]>>}
                      ELSE FlowEnv.bodies[r]],
        !.keyfiles = {"rsa.key"},
        !.csrs = AllCsrs,
        !.once = TRUE]

InitCsr ==
    /\ env = CsrEnv
    /\ stack = [p \in Threads |-> <<>>]
    /\ ret = [p \in Threads |-> NoRet]
    /\ net = [p \in Threads |-> <<>>]
    /\ caNonce = 0
    /\ usr = NoUser
    /\ fx = NoFx

NextCsr ==
    \/ CallGetChallenges
    \/ SendStep(1) \/ RegisterProbe(1) \/ RegisterDone(1)
    \/ ChallengeDone(1) \/ GetChallengesLoop(1)

SpecCsr == InitCsr /\ [][NextCsr]_vars

\* ------------------------------------------------------------ certificates

\* retrieve_certificate(csr, header, CA, ...) with the account of a key file
CallRetrieve ==
    /\ \E kf \in env.keyfiles :
         Begin([fn |-> "retrieve_certificate", account_key |-> kf],
               RetrieveFrames("csr file", Session(Account(kf), CA0, <<>>)))
    /\ UNCHANGED usr

\* The certificates the CA may issue: byte strings of every length up to
\* MaxDerLen and of two and three lines of base64 text, with two fillings.
DerBytes(n, first, step) == [i \in 1..n |-> (first + step * i) % 256]
Certificates ==
    {DerBytes(n, f[1], f[2]) :
        n \in (0..MaxDerLen) \cup {96, 97}, f \in {<<48, 37>>, <<251, 1>>}}

CertEnv ==
    [FlowEnv EXCEPT
        !.codes = {200, 201, 403},
        !.bodies = [r \in DOMAIN FlowEnv.bodies |->
                      IF r = "new-cert" THEN Certificates ELSE FlowEnv.bodies[r]],
        !.dirNonce = BOOLEAN,
        !.keyfiles = {"rsa.key"},
        !.once = TRUE]

InitCert ==
    /\ env = CertEnv
    /\ stack = [p \in Threads |-> <<>>]
    /\ ret = [p \in Threads |-> NoRet]
    /\ net = [p \in Threads |-> <<>>]
    /\ caNonce = 0
    /\ usr = NoUser
    /\ fx = NoFx

NextCert == CallRetrieve \/ SendStep(1) \/ RetrieveDone(1)

SpecCert == InitCert /\ [][NextCert]_vars

\* ------------------------------------------------- files and web servers

\* write_challenges(state, folder_for_domain) with the state the program holds
CallWrite ==
    /\ ~IsNone(usr.held)
    /\ \E folder \in env.folders :
         Begin([fn |-> "write_challenges", state |-> Val(usr.held), folder |-> folder],
               <<FilesFrame("write_challenges", Val(usr.held), folder)>>)
    /\ UNCHANGED usr

\* remove_challenges(state, folder_for_domain) with the state the program holds
CallRemove ==
    /\ ~IsNone(usr.held)
    /\ \E folder \in env.folders :
         Begin([fn |-> "remove_challenges", state |-> Val(usr.held), folder |-> folder],
               <<FilesFrame("remove_challenges", Val(usr.held), folder)>>)
    /\ UNCHANGED usr

\* verify_challenges(state) with the state the program holds
CallVerify ==
    /\ ~IsNone(usr.held)
    /\ Begin([fn |-> "verify_challenges", state |-> Val(usr.held)],
             <<VerifyFrame(Val(usr.held))>>)
    /\ UNCHANGED usr

\* A CA that answers as the protocol says, CSRs with one and with two names,
\* a folder for all domains or one for each, web servers that send the key
\* authorization, something like it or nothing.
WebEnv ==
    [codes |-> {201},
     bodies |-> [FlowEnv.bodies EXCEPT
                   !["new-authz"] = {<<[type |-> "http-01", token |-> <<97, 43>>]>>}],
     dirDocs |-> {DirPartial},
     dirNonce |-> BOOLEAN,
     newNonce |-> {TRUE},
     sigShapes |-> {[zeros |-> <<0, 0>>, top |-> 128]},
     keyfiles |-> {"rsa.key"},
     targets |-> {},
     python |-> {2, 3},
     statuses |-> {"valid"},
     csrs |-> {[cn |-> Some(<<97>>), sans |-> <<>>],
               [cn |-> Some(<<98>>), sans |-> <<Dns(<<97>>)>>]},
     once |-> FALSE,
     contacts |-> {[email_address |-> None, telephone |-> None]},
     folders |-> {[callable |-> FALSE, name |-> "webroot"],
                  [callable |-> TRUE, name |-> "webroot of"]},
     pages |-> {"exact", "padded", "longer", "split", "empty"}]

InitWeb ==
    /\ env = WebEnv
    /\ stack = [p \in Threads |-> <<>>]
    /\ ret = [p \in Threads |-> NoRet]
    /\ net = [p \in Threads |-> <<>>]
    /\ caNonce = 0
    /\ usr = NoUser
    /\ fx = NoFx

NextWeb ==
    \/ CallGetChallenges
    \/ SendStep(1) \/ RegisterProbe(1) \/ RegisterDone(1)
    \/ ChallengeDone(1) \/ GetChallengesLoop(1)
    \/ CallWrite \/ WriteLoop(1)
    \/ CallVerify \/ VerifyLoop(1)
    \/ CallRemove \/ RemoveLoop(1)

SpecWeb == InitWeb /\ [][NextWeb]_vars

\* ------------------------------------------- a session through its calls

\* The program gets a session and then calls write_challenges,
\* verify_challenges, notify_challenges, check_challenges and
\* remove_challenges with it, in any order and as often as it likes; any of
\* them may fail.
SessionEnv ==
    [WebEnv EXCEPT
        !.codes = {201, 202, 403},
        !.statuses = {"pending", "valid", "invalid"},
        !.csrs = {[cn |-> Some(<<98>>), sans |-> <<Dns(<<97>>)>>]},
        !.folders = {[callable |-> TRUE, name |-> "webroot of"]},
        !.pages = {"exact", "empty"}]

InitSession ==
    /\ env = SessionEnv
    /\ stack = [p \in Threads |-> <<>>]
    /\ ret = [p \in Threads |-> NoRet]
    /\ net = [p \in Threads |-> <<>>]
    /\ caNonce = 0
    /\ usr = NoUser
    /\ fx = NoFx

NextSession ==
    \/ CallGetChallenges
    \/ CallWrite \/ CallVerify \/ CallNotify \/ CallCheck \/ CallRemove
    \/ LibraryStep(1)
    \/ WriteLoop(1) \/ VerifyLoop(1) \/ RemoveLoop(1)

SpecSession == InitSession /\ [][NextSession]_vars

\* ------------------------------------------------------ serialized states

\* What a text gives as the value of a key.
SampleValue(k) ==
    CASE k = "challenges" ->
            JArray(<<JObject(<<[key |-> "domain", value |-> JString("name", "a")]>>)>>)
      [] k = "header" -> JObject(<<[key |-> "alg", value |-> JString("name", "RS256")]>>)
      [] k = "extra" -> JNull
      [] OTHER -> JString("name", k)

\* The JSON object with the keys K, in the order of KeyOrder or in the
\* opposite order.
ObjectOf(K, reversed) ==
    LET keys == SelectSeq(KeyOrder, LAMBDA k : k \in K)
        n == Len(keys)
    IN  JObject([i \in 1..n |->
                   LET k == keys[IF reversed THEN n + 1 - i ELSE i] IN
                   [key |-> k, value |-> SampleValue(k)]])

\* The texts a program may hand to deserialize_state: the objects with any of
\* the seven keys and a further one, an object that has a key twice, an object
\* written in another order, values that are no object, text that is no JSON.
Texts ==
    {ObjectOf(K, FALSE) : K \in SUBSET (RequiredKeys \cup {"extra"})}
        \cup {ObjectOf(RequiredKeys, TRUE),
              JObject(ObjectOf(RequiredKeys, FALSE).members
                        \o <<[key |-> "CA", value |-> JNull]>>),
              JArray(<<ObjectOf(RequiredKeys, FALSE)>>), JArray(<<>>),
              JString("name", "account_key"), JNumber(7), JNull, JTrue, JFalse,
              Malformed}

StateEnv == [texts |-> Texts, once |-> TRUE]

InitState ==
    /\ env = StateEnv
    /\ stack = [p \in Threads |-> <<>>]
    /\ ret = [p \in Threads |-> NoRet]
    /\ net = [p \in Threads |-> <<>>]
    /\ caNonce = 0
    /\ usr = NoUser
    /\ fx = NoFx

NextState == CallDeserialize \/ CallSerialize

SpecState == InitState /\ [][NextState]_vars

\* ------------------------------------------------------------- the claims

\* The requests of the program's call, and what they were answered.
Reqs == net[1]
PostsOf(q) == SelectSeq(q, LAMBDA r : r.m = "POST")
LastReq == Reqs[Len(Reqs)]
Finished == Idle /\ ret[1].k # "none"
\* The status answers the challenge URI `uri` gave to the polls so far.
StatusesOf(uri) ==
    LET polls == SelectSeq(Reqs, LAMBDA r :
                     r.m = "GET" /\ r.url = uri /\ r.ans.t = "ok")
    IN  [i \in 1..Len(polls) |-> polls[i].ans.body.status]

\* C4: register_account returns True when the CA answers the new-reg request
\* with 201, False when it answers 409, and raises an error carrying status and
\* body for any other status and for a transport failure (status None).
C4_RegisterOutcome ==
    (/\ ret[1].k # "none" /\ ret[1].fn = "register_account"
     /\ Len(Reqs) > 0 /\ LastReq.m = "POST")
    => LET a == Val(LastReq.req).ans IN
       /\ Val(LastReq.req).payload.resource = "new-reg"
       /\ IF a.t = "ok" /\ a.code = 201
          THEN ret[1] = Returned("register_account", TRUE)
          ELSE IF a.t = "http_error" /\ a.code = 409
          THEN ret[1] = Returned("register_account", FALSE)
          ELSE /\ ret[1].k = "raise" /\ ret[1].exc = "ValueError"
               /\ Val(ret[1].detail) =
                    IF a.t = "url_error" THEN <<None, a.msg>>
                    ELSE <<Some(a.code), a.body>>

\* The CA has answered 409 and register_account has returned False.
C4_AlreadyRegistered ==
    /\ ret[1] = Returned("register_account", FALSE)
    /\ Len(Reqs) > 0 /\ LastReq.m = "POST" /\ Val(LastReq.req).ans.code = 409

\* C7: notify_challenges sends one signed "challenge" request per record, in
\* list order, to the record's challenge URI with its stored key
\* authorization; it goes on to the next record only after a 202, raises an
\* error with status and body at the first other answer, and returns only when
\* every record was answered 202.
C7_NotifyInOrder ==
    fx.call.fn = "notify_challenges" =>
    LET posts == PostsOf(Reqs)
        entries == fx.call.state.challenges
        code(i) == IF Val(posts[i].req).ans.t = "url_error" THEN None
                   ELSE Some(Val(posts[i].req).ans.code)
    IN  /\ Len(posts) <= Len(entries)
        /\ \A i \in 1..Len(posts) :
             /\ posts[i].url = entries[i].challenge.uri
             /\ Val(posts[i].req).payload =
                  [resource |-> "challenge",
                   keyAuthorization |-> entries[i].keyauthorization]
             /\ i < Len(posts) => code(i) = Some(202)
        /\ (Finished /\ ret[1].k = "return")
             => /\ Len(posts) = Len(entries)
                /\ \A i \in 1..Len(posts) : code(i) = Some(202)
        /\ (Finished /\ Len(posts) > 0 /\ code(Len(posts)) # Some(202))
             => /\ ret[1].k = "raise" /\ ret[1].fn = "notify_challenge"
                /\ ret[1].exc = "ValueError"
                /\ Val(ret[1].detail)[1] = code(Len(posts))
        /\ (Finished /\ ret[1].k = "raise" /\ ret[1].fn = "notify_challenge")
             => Len(posts) > 0 /\ code(Len(posts)) # Some(202)

\* notify_challenges has stopped at the first record of two: the CA did not
\* answer 202.
C7_StoppedAtFirst ==
    /\ fx.call.fn = "notify_challenges" /\ Finished
    /\ Len(fx.call.state.challenges) = 2
    /\ Len(PostsOf(Reqs)) = 1
    /\ ret[1].k = "raise" /\ ret[1].fn = "notify_challenge"

\* Both records of a state were notified.
C7_AllNotified ==
    /\ fx.call.fn = "notify_challenges" /\ Finished /\ ret[1].k = "return"
    /\ Len(fx.call.state.challenges) = 2

\* C6: in check_challenges the new-cert request is sent only after every
\* domain was polled to "valid"; inform is called once per domain, in session
\* order, after the domain was seen valid and before the new-cert request; when
\* a domain's challenge fails, no new-cert request is sent and inform is not
\* called for that domain or a later one.
C6_InformThenCertificate ==
    (fx.call.fn = "check_challenges" /\ fx.call.inform) =>
    LET entries == fx.call.state.challenges
        st(i) == StatusesOf(entries[i].challenge.uri)
        valid(i) == Len(st(i)) > 0 /\ st(i)[Len(st(i))] = "valid"
        n == Len(fx.informed)
    IN  /\ n <= Len(entries)
        /\ \A i \in 1..n : fx.informed[i] = entries[i].domain /\ valid(i)
        /\ \A i \in 1..Len(entries) :
             /\ (i > n /\ valid(i)) => (i = n + 1 /\ Running(1, "check_challenges", "polling"))
             /\ (i > n + 1) => Len(st(i)) = 0
        /\ PostsOf(Reqs) # <<>> =>
             /\ n = Len(entries)
             /\ \A i \in 1..Len(PostsOf(Reqs)) :
                  Val(PostsOf(Reqs)[i].req).payload.resource = "new-cert"
        /\ (ret[1].k = "raise" /\ ret[1].fn = "check_challenge_verified")
             => /\ PostsOf(Reqs) = <<>>
                /\ n < Len(entries)
                /\ ~valid(n + 1)

\* Both domains were seen valid, inform was called for both and the new-cert
\* request was sent.
C6_CertificateAfterBoth ==
    /\ fx.call.fn = "check_challenges" /\ fx.call.inform
    /\ Len(fx.call.state.challenges) = 2 /\ Len(fx.informed) = 2
    /\ PostsOf(Reqs) # <<>>

\* The second domain's challenge failed after the first was seen valid.
C6_SecondFailed ==
    /\ fx.call.fn = "check_challenges" /\ fx.call.inform
    /\ Len(fx.call.state.challenges) = 2 /\ Len(fx.informed) = 1
    /\ ret[1].k = "raise" /\ ret[1].fn = "check_challenge_verified"
    /\ ret[1].exc = "ValueError"

\* C2: check_challenge_verified, for k "pending" answers followed by one other
\* answer: with wait it returns True for "valid" and raises the error carrying
\* the status document for anything else, after k+1 GETs (and k sleeps);
\* without wait and with a first answer "pending" it returns False after one
\* GET and without sleeping.
C2_PollOutcome ==
    fx.call.fn = "check_challenge_verified" =>
    LET st == StatusesOf(fx.call.challenge.uri)
        k == Cardinality({i \in 1..Len(st) : st[i] = "pending"})
        answered == Len(Reqs) > 0 /\ LastReq.ans.t = "ok"
    IN  /\ \A i \in 1..Len(Reqs) : Reqs[i].m = "GET" /\ Reqs[i].url = fx.call.challenge.uri
        /\ \A i \in 1..(Len(st) - 1) : st[i] = "pending"
        /\ ~Finished => (k = Len(st) /\ fx.slept = k)
        /\ (Finished /\ answered /\ fx.call.wait) =>
             /\ Len(Reqs) = k + 1 /\ fx.slept = k
             /\ IF st[Len(st)] = "valid"
                THEN ret[1] = Returned("check_challenge_verified", TRUE)
                ELSE /\ ret[1].k = "raise" /\ ret[1].exc = "ValueError"
                     /\ Val(ret[1].detail) = <<fx.call.domain, [status |-> st[Len(st)]]>>
        /\ (Finished /\ answered /\ ~fx.call.wait /\ st[1] = "pending") =>
             /\ ret[1] = Returned("check_challenge_verified", FALSE)
             /\ Len(Reqs) = 1 /\ fx.slept = 0

\* Waiting, the call saw "pending" twice and then "valid", and returned True.
C2_PendingThenValid ==
    /\ fx.call.fn = "check_challenge_verified" /\ fx.call.wait /\ Finished
    /\ StatusesOf(fx.call.challenge.uri) = <<"pending", "pending", "valid">>
    /\ ret[1] = Returned("check_challenge_verified", TRUE)

\* Waiting, the call saw "pending" and then "invalid", and raised.
C2_PendingThenInvalid ==
    /\ fx.call.fn = "check_challenge_verified" /\ fx.call.wait /\ Finished
    /\ StatusesOf(fx.call.challenge.uri) = <<"pending", "invalid">>
    /\ ret[1].k = "raise"

\* Not waiting, the call saw "pending" and returned False.
C2_NotYetVerified ==
    /\ fx.call.fn = "check_challenge_verified" /\ ~fx.call.wait /\ Finished
    /\ StatusesOf(fx.call.challenge.uri) = <<"pending">>
    /\ ret[1] = Returned("check_challenge_verified", FALSE)

\* The characters of [A-Za-z0-9_-]: the capital and small letters, the digits,
\* the underscore (95) and the hyphen (45).
Allowed == (65..90) \cup (97..122) \cup (48..57) \cup {95} \cup {45}

\* C8: get_challenge replaces every character of the CA's token outside
\* [A-Za-z0-9_-] by "_" and leaves the others and the length as they are
\* ("ab+c/d" becomes "ab_c_d"; rewriting twice is rewriting once); the token
\* returned, the token in the returned challenge object and the token of the
\* key authorization are this value, and the key authorization is
\* token + "." + thumbprint.
C8_TokenSanitized ==
    /\ Sanitize(<<97, 98, 43, 99, 47, 100>>) = <<97, 98, 95, 99, 95, 100>>
    /\ (ret[1].k = "return" /\ ret[1].fn = "get_challenge") =>
         LET raw == SelectSeq(Val(LastReq.req).ans.body.challenges,
                              LAMBDA c : c.type = "http-01")[1].token
             challenge == ret[1].val[1]
             token == ret[1].val[2]
             keyauthorization == ret[1].val[3]
         IN  /\ Len(token) = Len(raw)
             /\ \A i \in 1..Len(raw) :
                  token[i] = IF raw[i] \in Allowed THEN raw[i] ELSE 95
             /\ Sanitize(token) = token
             /\ challenge.token = token
             /\ keyauthorization
                  = token \o <<46>> \o Account(fx.call.account_key).thumbprint

\* get_challenge has returned a token that had to be rewritten and one that
\* holds a hyphen, which is kept.
C8_Rewritten ==
    /\ ret[1].k = "return" /\ ret[1].fn = "get_challenge"
    /\ Val(LastReq.req).ans.body.challenges[1].token = <<45, 43>>
    /\ ret[1].val[2] = <<45, 95>>

\* a comes before b in the order of sorted(): at the first place where they
\* differ a has the smaller character, or a ends there and b goes on.
Before(a, b) ==
    \E k \in 1..(Len(b)) :
        /\ \A i \in 1..(k - 1) : i <= Len(a) /\ a[i] = b[i]
        /\ \/ k = Len(a) + 1
           \/ k <= Len(a) /\ a[k] < b[k]

\* The names of a CSR: its common name and its DNS alternative names.
NamesOf(csr) ==
    (IF IsNone(csr.cn) THEN {} ELSE {Val(csr.cn)})
        \cup {csr.sans[i].value : i \in {j \in 1..Len(csr.sans) : csr.sans[j].kind = "DNS"}}

Ascending(q) == \A i \in 1..(Len(q) - 1) : Before(q[i], q[i + 1])

\* C9: parse_csr returns the CSR's common name and DNS alternative names as a
\* list in ascending order without repetitions (the spec's example gives
\* example.com, www.example.com), and get_challenges makes one challenge record
\* per element of the list, in its order: the domains of the records of a
\* returned state are pairwise distinct.
C9_DomainsSortedDistinct ==
    /\ LET example == <<101, 120, 97, 109, 112, 108, 101, 46, 99, 111, 109>>
           www == <<119, 119, 119, 46>> \o example
       IN  ParseCsr([cn |-> Some(example), sans |-> <<Dns(example), Dns(www)>>])
             = <<example, www>>
    /\ (Depth(1) > 0 /\ stack[1][1].fn = "get_challenges") =>
         LET f == stack[1][1] IN
         /\ Ascending(f.domains)
         /\ {f.domains[i] : i \in 1..Len(f.domains)} = NamesOf(f.csr)
         /\ Len(f.challenges) <= Len(f.domains)
         /\ \A i \in 1..Len(f.challenges) : f.challenges[i].domain = f.domains[i]
    /\ (ret[1].k = "return" /\ ret[1].fn = "get_challenges") =>
         LET records == ret[1].val.challenges IN
         /\ Len(records) = Cardinality(NamesOf(fx.call.csr))
         /\ {records[i].domain : i \in 1..Len(records)} = NamesOf(fx.call.csr)
         /\ Ascending([i \in 1..Len(records) |-> records[i].domain])
         /\ \A i, j \in 1..Len(records) :
              i # j => records[i].domain # records[j].domain

\* get_challenges has returned a state for a CSR that names b, then a, then b
\* again: two records, a before b.
C9_TwoRecordsFromThreeNames ==
    /\ ret[1].k = "return" /\ ret[1].fn = "get_challenges"
    /\ fx.call.csr = [cn |-> Some(<<98>>), sans |-> <<Dns(<<97>>), Dns(<<98>>)>>]
    /\ Len(ret[1].val.challenges) = 2
    /\ ret[1].val.challenges[1].domain = <<97>>

\* C3: serialize_state does not fail on a state that get_challenges returned,
\* and deserialize_state gives back, from the text it wrote, a state equal to
\* the one serialized, with all seven fields.
C3_SessionRoundTrips ==
    (/\ fx.call.fn = "serialize_state"
     /\ ~IsNone(usr.held)
     /\ fx.call.state = PyState(Val(usr.held))) =>
        /\ ret[1].k = "return"
        /\ deserialize_state(ret[1].val) = Returned("deserialize_state", fx.call.state)

\* The seven keys of a serialized state.
SevenKeys ==
    {"account_key", "account_key_type", "account_key_algorithm", "header",
     "thumbprint", "CA", "challenges"}

\* The keys of the members of a JSON text that is an object.
KeysOf(text) ==
    IF text.j = "object"
    THEN {text.members[i].key : i \in 1..Len(text.members)}
    ELSE {}

\* C5: deserialize_state raises the error of an invalid state when the value
\* of the text is no object or lacks one of the seven keys; given an object
\* with all seven it returns that object: a dict with the keys of the text,
\* each with the value the text gives it.
C5_DeserializeChecksKeys ==
    fx.call.fn = "deserialize_state" =>
        LET text == fx.call.serialized_state
            m == text.members
        IN  IF text.j = "object" /\ SevenKeys \subseteq KeysOf(text)
            THEN /\ ret[1].k = "return"
                 /\ ret[1].val.t = "dict"
                 /\ DOMAIN ret[1].val.v = KeysOf(text)
                 /\ \A i \in 1..Len(m) :
                      (\A n \in (i + 1)..Len(m) : m[n].key # m[i].key)
                          => ret[1].val.v[m[i].key] = Decode(m[i].value)
                 /\ usr.loaded = Some(ret[1].val)
            ELSE /\ ret[1].k = "raise"
                 /\ ret[1].exc = "ValueError"
                 /\ text.j # "malformed"
                      => ret[1].detail = Some("Not a valid serialized state!")

\* deserialize_state was given an object with every key but CA and raised.
C5_OneKeyMissing ==
    /\ fx.call.fn = "deserialize_state"
    /\ KeysOf(fx.call.serialized_state) = SevenKeys \ {"CA"}
    /\ ret[1].k = "raise"

\* deserialize_state was given an object with the seven keys and one more, and
\* returned it.
C5_Returned ==
    /\ fx.call.fn = "deserialize_state"
    /\ KeysOf(fx.call.serialized_state) = SevenKeys \cup {"extra"}
    /\ ret[1].k = "return"

\* deserialize_state was given an array that holds a state, and raised.
C5_NotAnObject ==
    /\ fx.call.fn = "deserialize_state"
    /\ fx.call.serialized_state.j = "array"
    /\ Len(fx.call.serialized_state.items) = 1
    /\ ret[1].k = "raise"

\* The place of a character in the base64 alphabet.
Base64Index(c) ==
    CASE c \in 65..90 -> c - 65
      [] c \in 97..122 -> c - 71
      [] c \in 48..57 -> c + 4
      [] c = 43 -> 62
      [] c = 47 -> 63
      [] OTHER -> 0

\* The bytes that base64 text stands for: every four characters give three
\* bytes, less one for every "=" at the end.
Base64Bytes(text) ==
    LET pad == Cardinality({i \in 1..Len(text) : text[i] = 61})
        quad(g) == 262144 * Base64Index(text[4 * g - 3]) + 4096 * Base64Index(text[4 * g - 2])
                     + 64 * Base64Index(text[4 * g - 1]) + Base64Index(text[4 * g])
    IN  [i \in 1..(3 * (Len(text) \div 4) - pad) |->
            LET g == (i + 2) \div 3
                j == i - 3 * (g - 1)
            IN  CASE j = 1 -> quad(g) \div 65536
                  [] j = 2 -> (quad(g) \div 256) % 256
                  [] j = 3 -> quad(g) % 256]

\* The lines of a text that ends with a newline.
RECURSIVE LinesOf(_)
LinesOf(text) ==
    IF text = <<>> THEN <<>>
    ELSE LET end == CHOOSE i \in 1..Len(text) :
                        text[i] = 10 /\ \A k \in 1..(i - 1) : text[k] # 10
         IN  <<SubSeq(text, 1, end - 1)>> \o LinesOf(SubSeq(text, end + 1, Len(text)))

RECURSIVE Concatenation(_)
Concatenation(lines) ==
    IF lines = <<>> THEN <<>> ELSE lines[1] \o Concatenation(Tail(lines))

\* C11: retrieve_certificate sends one new-cert signed request.  When the CA
\* answers 201 it returns the body between a BEGIN CERTIFICATE and an END
\* CERTIFICATE line as base64 text in lines of at most 64 characters, every
\* line but the last of exactly 64, which put together stand for the bytes of
\* the body; for any other status it raises ValueError with the status and the
\* body and returns no certificate.
C11_CertificateOrError ==
    (fx.call.fn = "retrieve_certificate" /\ Finished) =>
        /\ Len(PostsOf(Reqs)) <= 1
        /\ \A i \in 1..Len(PostsOf(Reqs)) :
             /\ Val(PostsOf(Reqs)[i].req).payload.resource = "new-cert"
             /\ PostsOf(Reqs)[i].url = DirPartial["new-cert"]
        /\ (ret[1].fn = "retrieve_certificate") =>
             LET a == Val(LastReq.req).ans IN
             /\ Len(PostsOf(Reqs)) = 1 /\ LastReq.m = "POST"
             /\ IF a.t = "ok" /\ a.code = 201
                THEN /\ ret[1].k = "return"
                     /\ LET lines == LinesOf(ret[1].val)
                            n == Len(lines)
                            text == [i \in 1..(n - 2) |-> lines[i + 1]]
                        IN  /\ n >= 3
                            /\ ret[1].val[Len(ret[1].val)] = 10
                            /\ lines[1] = BeginCertificate
                            /\ lines[n] = EndCertificate
                            /\ \A i \in 1..(n - 2) : Len(text[i]) <= 64
                            /\ \A i \in 1..(n - 3) : Len(text[i]) = 64
                            /\ Base64Bytes(Concatenation(text)) = a.body
                ELSE /\ ret[1].k = "raise" /\ ret[1].exc = "ValueError"
                     /\ ret[1].detail
                          = Some(IF a.t = "url_error" THEN <<None, a.msg>>
                                 ELSE <<Some(a.code), a.body>>)
        /\ (ret[1].k = "return") => ret[1].fn = "retrieve_certificate"

\* The CA issued a certificate of 49 bytes: it was returned in a line of 64
\* characters and one of 4.
C11_TwoLines ==
    /\ fx.call.fn = "retrieve_certificate"
    /\ ret[1].k = "return" /\ ret[1].fn = "retrieve_certificate"
    /\ Len(Val(LastReq.req).ans.body) = 49
    /\ Len(LinesOf(ret[1].val)) = 4
    /\ Len(LinesOf(ret[1].val)[3]) = 4

\* The CA answered the new-cert request with 200, and no certificate was
\* returned.
C11_Refused ==
    /\ fx.call.fn = "retrieve_certificate"
    /\ ret[1].k = "raise"
    /\ LastReq.m = "POST" /\ Val(LastReq.req).ans.t = "ok"

\* C12: when the probe of the agreement URL fails in register_account, nothing
\* is raised for it: the new-reg request is sent with the default agreement
\* URL, and the answer to it (201, 409 or another status) decides the result.
C12_ProbeFailureNotFatal ==
    (/\ fx.call.fn = "get_challenges"
     /\ Len(Reqs) >= 1
     /\ Reqs[1].url = U(CA0, <<"/terms">>)
     /\ Reqs[1].ans.t = "url_error") =>
        /\ ~(ret[1].k = "raise" /\ ret[1].fn = "register_account"
                /\ ret[1].exc = "AttributeError")
        /\ Idle => Len(Reqs) >= 2
        /\ \A i \in 1..Len(PostsOf(Reqs)) :
             LET q == Val(PostsOf(Reqs)[i].req) IN
             q.payload.resource = "new-reg" =>
                /\ q.payload.agreement = DefaultAgreement
                /\ i = 1
                /\ (q.ans.t = "ok" /\ q.ans.code = 201) =>
                       ~(ret[1].k = "raise" /\ ret[1].fn = "register_account")
                /\ (q.ans.t = "http_error" /\ q.ans.code = 403 /\ Idle) =>
                       (ret[1].k = "raise" /\ ret[1].fn = "register_account"
                          /\ ret[1].exc = "ValueError")

\* What _send_signed_request returns for an answer to its POST.
ErrorOf(a) == IF a.t = "url_error" THEN <<None, a.msg>> ELSE <<Some(a.code), a.body>>

\* The answers with which the function that sent the signed request goes on:
\* 201 and 409 for new-reg, 201 for new-authz and new-cert, 202 for a challenge.
Accepted(q) ==
    /\ q.ans.t # "url_error"
    /\ q.ans.code \in (CASE q.payload.resource = "new-reg" -> {201, 409}
                         [] q.payload.resource = "challenge" -> {202}
                         [] OTHER -> {201})

C13_PolledAgain ==
    /\ Len(Reqs) >= 3
    /\ \A k \in 1..3 : Reqs[k].m = "GET" /\ Reqs[k].url.path = <<"/chal/">>

\* The call the program made polls in blocking mode.
Blocking ==
    \/ fx.call.fn = "check_challenges"
    \/ fx.call.fn = "check_challenge_verified" /\ fx.call.wait

\* C14: with wait=True check_challenge_verified polls as long as the CA
\* answers "pending", however often: it slept after each such answer, it is
\* still running after the last of them, and it never returned False or raised
\* for one.  When every status leaves "pending" in the end (or the transport
\* fails) the call ends, and so does check_challenges.
C14_PollsUntilDecided ==
    /\ [](Blocking =>
            /\ ~(ret[1].k = "return" /\ ret[1].fn = "check_challenge_verified"
                    /\ ret[1].val = FALSE)
            /\ fx.slept = Cardinality({i \in 1..Len(Reqs) :
                              /\ Reqs[i].m = "GET" /\ Reqs[i].ans.t = "ok"
                              /\ Reqs[i].url.path = <<"/chal/">>
                              /\ Reqs[i].ans.body.status = "pending"})
            /\ (/\ Len(Reqs) > 0
                /\ LastReq.m = "GET" /\ LastReq.ans.t = "ok"
                /\ LastReq.url.path = <<"/chal/">>
                /\ LastReq.ans.body.status = "pending") =>
                    (/\ Running(1, "check_challenge_verified", "poll")
                     /\ ret[1].k # "raise"))
    /\ (Blocking /\ ~Idle) ~> Idle

\* check_challenges has polled a challenge as often as the CA answers
\* "pending" and is about to poll it once more.
C14_StillPolling ==
    /\ fx.call.fn = "check_challenges"
    /\ Running(1, "check_challenge_verified", "poll")
    /\ Top(1).polls = MaxPending
    /\ fx.slept >= MaxPending

\* The answer is a page that holds the text and, before and after it, nothing
\* but white space (blanks, tabs, line ends and the like).
Holds(answer, text) ==
    /\ answer.t = "ok"
    /\ \E i \in 1..(Len(answer.body) + 1 - Len(text)) :
         /\ \A k \in 1..Len(text) : answer.body[i + k - 1] = text[k]
         /\ \A k \in 1..Len(answer.body) :
              (k < i \/ k >= i + Len(text)) =>
                  answer.body[k] \in {9, 10, 11, 12, 13, 28, 29, 30, 31, 32}

\* C15: verify_challenges makes no signed request and takes no nonce.  It
\* GETs http://{domain}/.well-known/acme-challenge/{token} for the records of
\* the state, in their order, as long as the page sent is the record's key
\* authorization with white space around it at most.  It returns when that is
\* so for every record, and raises at the first record whose page cannot be
\* fetched or is another text, without asking for the later ones.
C15_VerifyByGetOnly ==
    fx.call.fn = "verify_challenges" =>
        LET records == fx.call.state.challenges
            good(i) == Holds(Reqs[i].ans, records[i].keyauthorization)
        IN  /\ caNonce = 0
            /\ Len(Reqs) <= Len(records)
            /\ \A i \in 1..Len(Reqs) :
                 /\ Reqs[i].m = "GET" /\ IsNone(Reqs[i].req) /\ IsNone(Reqs[i].nonce)
                 /\ Reqs[i].url.site = "http://"
                 /\ Reqs[i].url.name
                      = records[i].domain
                          \o <<47, 46, 119, 101, 108, 108, 45, 107, 110, 111, 119, 110, 47,
                               97, 99, 109, 101, 45, 99, 104, 97, 108, 108, 101, 110, 103,
                               101, 47>>
                          \o records[i].token
                 /\ i < Len(Reqs) => good(i)
            /\ Idle =>
                 /\ ret[1].fn = "verify_challenges"
                 /\ (ret[1].k = "return")
                      <=> (Len(Reqs) = Len(records) /\ \A i \in 1..Len(Reqs) : good(i))
                 /\ (ret[1].k = "raise")
                      <=> (Len(Reqs) > 0 /\ ~good(Len(Reqs)))
                 /\ (ret[1].k = "raise") => ret[1].exc = "ValueError"

\* verify_challenges returned for a state of two records; the page of the
\* first had white space around the key authorization.
C15_BothFound ==
    /\ fx.call.fn = "verify_challenges" /\ Idle
    /\ ret[1].k = "return"
    /\ Len(Reqs) = 2
    /\ Reqs[1].ans.body # fx.call.state.challenges[1].keyauthorization

\* verify_challenges raised at the first of two records and did not ask for
\* the second.
C15_StoppedAtFirst ==
    /\ fx.call.fn = "verify_challenges" /\ Idle
    /\ ret[1].k = "raise"
    /\ Len(fx.call.state.challenges) = 2
    /\ Len(Reqs) = 1

\* C17: remove_challenges goes on when a token file cannot be removed: it
\* raises nothing, and when it has ended none of the token files of the state
\* is left.
C17_RemoveIsBestEffort ==
    (fx.call.fn = "remove_challenges" /\ Idle) =>
        /\ ret[1].k = "return"
        /\ \A i \in 1..Len(fx.call.state.challenges) :
             LET e == fx.call.state.challenges[i] IN
             ~\E x \in usr.files :
                 x.path = WellKnownPath(e.domain, e.token, fx.call.folder)

\* The state object that a Python value of the shape of PyState stands for.
StateOf(value) ==
    LET d == value.v
        entry(e) ==
            [domain |-> e.v.domain.v,
             challenge |-> [type |-> e.v.challenge.v.type.v,
                            token |-> e.v.challenge.v.token.v,
                            uri |-> e.v.challenge.v.uri.v],
             token |-> e.v.token.v,
             keyauthorization |-> e.v.keyauthorization.v]
    IN  [account_key_type |-> d.account_key_type.v,
         account_key_algorithm |-> d.account_key_algorithm.v,
         account_key |-> d.account_key.v,
         header |-> [alg |-> d.header.v.alg.v,
                     jwk |-> [kty |-> d.header.v.jwk.v.kty.v,
                              pub |-> d.header.v.jwk.v.pub.v]],
         thumbprint |-> d.thumbprint.v,
         CA |-> d.CA.v,
         challenges |-> [i \in 1..Len(d.challenges.v) |-> entry(d.challenges.v[i])]]

\* C16: a state that get_challenges returned can be serialized, and
\* notify_challenges, verify_challenges and check_challenges begin on the
\* state deserialized from the text as they begin on the state itself: with
\* the same records, URLs, key authorizations, key file and algorithm, and so
\* make the same requests and give the same results.
C16_ResumableAfterSerialization ==
    ~IsNone(usr.held) =>
        LET s == Val(usr.held)
            text == serialize_state(PyState(s))
        IN  /\ StateOf(PyState(s)) = s
            /\ text.k = "return"
            /\ LET resumed == deserialize_state(text.val) IN
               /\ resumed.k = "return"
               /\ NotifyAllFrames(StateOf(resumed.val)) = NotifyAllFrames(s)
               /\ VerifyFrame(StateOf(resumed.val)) = VerifyFrame(s)
               /\ \A inform \in BOOLEAN :
                    CheckAllFrames(StateOf(resumed.val), "csr file", inform)
                        = CheckAllFrames(s, "csr file", inform)

\* The requests of a call of _send_signed_request for the directory, and its
\* other GETs (those of the new-nonce URL).
DirectoryGets == {i \in 1..Len(Reqs) : Reqs[i].m = "GET" /\ Reqs[i].url = DirectoryUrl(CA0)}
NonceGets == {i \in 1..Len(Reqs) : Reqs[i].m = "GET" /\ Reqs[i].url # DirectoryUrl(CA0)}

\* C18: a call of _send_signed_request fetches the directory once.  When that
\* response carries a Replay-Nonce, the new-nonce URL is not asked and the
\* POST carries that nonce; when it carries none, the new-nonce URL is asked
\* exactly once and the POST carries the nonce of that response.  The nonce
\* of a POST is never absent.
C18_NonceSource ==
    /\ Cardinality(DirectoryGets) <= 1
    /\ \A d \in DirectoryGets :
         /\ d = 1
         /\ ~IsNone(Reqs[d].nonce) =>
              /\ NonceGets = {}
              /\ \A i \in 1..Len(Reqs) : Reqs[i].m = "POST" => Reqs[i].nonce = Reqs[d].nonce
         /\ (Reqs[d].ans.t = "ok" /\ IsNone(Reqs[d].nonce)) =>
              /\ Cardinality(NonceGets) <= 1
              /\ stack[1] = <<>> => Cardinality(NonceGets) = 1
              /\ \A i \in 1..Len(Reqs) :
                   Reqs[i].m = "POST" =>
                      \E g \in NonceGets : g < i /\ Reqs[i].nonce = Reqs[g].nonce
    /\ \A i \in 1..Len(Reqs) :
         Reqs[i].m = "POST" =>
            /\ Cardinality(DirectoryGets) = 1
            /\ ~IsNone(Reqs[i].nonce)

\* The URL _lookup_directory owes for `key` given the directory document.
Listed(data, key) ==
    IF key \in DOMAIN data THEN data[key] ELSE U(CA0, <<"/acme/", key>>)

\* The arguments key and url of the call that POSTed request i.
TargetOf(i) ==
    CHOOSE t \in env.targets : t.resource = Val(Reqs[i].req).payload.resource

\* C19: _lookup_directory gives each requested key the URL of the directory
\* document, and CA/acme/key exactly when the document omits the key; the
\* result is the nonce followed by the URLs in the order of the keys, so the
\* caller's nonce, url and nonce_url are each the right one.  With an explicit
\* url the POST goes to that url and the directory gives only the nonce and
\* the new-nonce URL.
C19_DirectoryLookup ==
    \A d \in DirectoryGets : Reqs[d].ans.t = "ok" =>
        LET data == Reqs[d].ans.body IN
        /\ \A g \in NonceGets : Reqs[g].url = Listed(data, "new-nonce")
        /\ \A g \in NonceGets :
             Reqs[g].url = U(CA0, <<"/acme/", "new-nonce">>)
                <=> "new-nonce" \notin DOMAIN data
        /\ \A i \in 1..Len(Reqs) : Reqs[i].m = "POST" =>
             LET t == TargetOf(i) IN
             /\ IsNone(t.url) => Reqs[i].url = Listed(data, Val(t.key))
             /\ IsNone(t.url) =>
                  (Reqs[i].url = U(CA0, <<"/acme/", Val(t.key)>>)
                      <=> Val(t.key) \notin DOMAIN data)
             /\ ~IsNone(t.url) => Reqs[i].url = Val(t.url)
             /\ ~IsNone(Reqs[d].nonce) => Reqs[i].nonce = Reqs[d].nonce
        /\ (stack[1] # <<>> /\ Top(1).pc # "lookup") =>
             /\ Top(1).nonce_url = Some(Listed(data, "new-nonce"))
             /\ Top(1).pc = "nonce" => IsNone(Top(1).nonce)
             /\ ~IsNone(Reqs[d].nonce) => Top(1).nonce = Reqs[d].nonce

\* A request was POSTed to the conventional URL of a key the directory omits,
\* with a nonce asked from the conventional new-nonce URL.
C19_OmittedKey ==
    \E i \in 1..Len(Reqs) :
        /\ Reqs[i].m = "POST"
        /\ Reqs[1].ans.t = "ok" /\ Reqs[1].ans.body = DirPartial
        /\ Reqs[i].url = U(CA0, <<"/acme/", "new-reg">>)
        /\ NonceGets # {}

\* A request was POSTed to the URL the directory lists for its key.
C19_ListedKey ==
    \E i \in 1..Len(Reqs) :
        /\ Reqs[i].m = "POST"
        /\ Reqs[1].ans.t = "ok" /\ Reqs[1].ans.body = DirFull
        /\ Reqs[i].url = DirFull["new-reg"]

\* A request was POSTed to the explicit url of the call.
C19_ExplicitUrl ==
    \E i \in 1..Len(Reqs) :
        /\ Reqs[i].m = "POST"
        /\ ~IsNone(TargetOf(i).url)
        /\ Reqs[i].url = Val(TargetOf(i).url)

C20_HttpErrorReturned ==
    /\ Len(Reqs) > 0 /\ Reqs[Len(Reqs)].m = "POST"
    /\ Val(Reqs[Len(Reqs)].req).ans.t = "http_error"
    /\ ret[1] = Returned("_send_signed_request", <<Some(409), "error document">>)

\* The answer to a new-authz request issues a challenge: status 201 and a list
\* with a challenge of type http-01.
Issues(a) ==
    /\ a.t = "ok" /\ a.code = 201
    /\ \E k \in 1..Len(a.body.challenges) : a.body.challenges[k].type = "http-01"

\* The place of a name among the names of a CSR in the order of sorted().
RankOf(name, csr) == 1 + Cardinality({n \in NamesOf(csr) : Before(n, name)})

\* C21: get_challenges sends its new-reg request before any new-authz request
\* and goes on after 201 and after 409 alike; it sends one new-authz request
\* per domain in ascending order of the domains, the next one only when
\* registration and every earlier domain succeeded; it returns a session only
\* when every domain's new-authz succeeded, and every record of that session
\* has a challenge URI, a token of allowed characters and the key
\* authorization token.thumbprint; when anything fails no session is returned.
C21_AllOrNothing ==
    fx.call.fn = "get_challenges" =>
    LET posts == PostsOf(Reqs)
        answer(i) == Val(posts[i].req).ans
        payload(i) == Val(posts[i].req).payload
        acct == Account(fx.call.account_key)
        names == NamesOf(fx.call.csr)
    IN  /\ Len(posts) <= 1 + Cardinality(names)
        /\ \A i \in 1..Len(posts) :
             /\ payload(i).resource = (IF i = 1 THEN "new-reg" ELSE "new-authz")
             /\ i > 1 =>
                  /\ answer(1).t # "url_error" /\ answer(1).code \in {201, 409}
                  /\ payload(i).identifier.value \in names
                  /\ RankOf(payload(i).identifier.value, fx.call.csr) = i - 1
                  /\ \A j \in 2..(i - 1) : Issues(answer(j))
        /\ (ret[1].k = "return" /\ ret[1].fn = "get_challenges") =>
             LET session == ret[1].val IN
             /\ Len(posts) = 1 + Cardinality(names)
             /\ \A i \in 2..Len(posts) : Issues(answer(i))
             /\ Len(session.challenges) = Cardinality(names)
             /\ usr.held = Some(session)
             /\ session.account_key = fx.call.account_key
             /\ session.header = acct.header /\ session.thumbprint = acct.thumbprint
             /\ session.CA = CA0
             /\ \A i \in 1..Len(session.challenges) :
                  LET record == session.challenges[i]
                      listed == answer(i + 1).body.challenges
                  IN  /\ record.domain = payload(i + 1).identifier.value
                      /\ "uri" \in DOMAIN record.challenge
                      /\ \E k \in 1..Len(listed) : listed[k].uri = record.challenge.uri
                      /\ record.challenge.type = "http-01"
                      /\ \A k \in 1..Len(record.token) : record.token[k] \in Allowed
                      /\ record.challenge.token = record.token
                      /\ record.keyauthorization
                           = record.token \o <<46>> \o acct.thumbprint
        /\ (\/ Len(posts) >= 1 /\ (answer(1).t = "url_error" \/ answer(1).code \notin {201, 409})
            \/ \E i \in 2..Len(posts) : ~Issues(answer(i))) =>
             /\ LastReq.m = "POST"
             /\ Idle => ret[1].k = "raise" /\ ret[1].exc \in {"ValueError", "IndexError"}
             /\ IsNone(usr.held)
        /\ ~(ret[1].k = "return" /\ ret[1].fn = "get_challenges") => IsNone(usr.held)

\* get_challenges was told the account exists already (409) and returned a
\* session with the records of two domains.
C21_TwoDomainsIssued ==
    /\ fx.call.fn = "get_challenges"
    /\ ret[1].k = "return" /\ ret[1].fn = "get_challenges"
    /\ Len(ret[1].val.challenges) = 2
    /\ Val(PostsOf(Reqs)[1].req).ans.code = 409

\* The first domain was issued, the second refused: get_challenges has raised
\* and the program holds no session.
C21_SecondDomainRefused ==
    /\ fx.call.fn = "get_challenges"
    /\ Finished /\ ret[1].k = "raise" /\ ret[1].fn = "get_challenge"
    /\ Len(PostsOf(Reqs)) = 3
    /\ Cardinality(NamesOf(fx.call.csr)) = 2

\* Registration was refused: no new-authz request was sent.
C21_RegistrationRefused ==
    /\ fx.call.fn = "get_challenges"
    /\ Finished /\ ret[1].k = "raise" /\ ret[1].fn = "register_account"
    /\ ret[1].exc = "ValueError"
    /\ Len(PostsOf(Reqs)) = 1

\* The places of the challenges of type http-01 in a list of challenges.
Http01Places(listed) == {k \in 1..Len(listed) : listed[k].type = "http-01"}

\* C22: get_challenge returns a challenge record only when its new-authz
\* request was answered 201 with a list that holds a challenge of type
\* http-01, and the record is then made from the first such challenge of the
\* list; for any other status (a transport failure included) and for a list
\* without an http-01 challenge it raises and returns nothing.
C22_FirstHttp01Selected ==
    (/\ ret[1].k # "none" /\ ret[1].fn = "get_challenge"
     /\ Len(Reqs) > 0 /\ LastReq.m = "POST")
    => LET a == Val(LastReq.req).ans IN
       /\ Val(LastReq.req).payload.resource = "new-authz"
       /\ ret[1].k = "return" <=>
            (a.t = "ok" /\ a.code = 201 /\ Http01Places(a.body.challenges) # {})
       /\ ret[1].k = "return" =>
            LET first == CHOOSE k \in Http01Places(a.body.challenges) :
                            \A l \in Http01Places(a.body.challenges) : k <= l
                chosen == a.body.challenges[first]
            IN  /\ ret[1].val[1].uri = chosen.uri
                /\ ret[1].val[1].type = "http-01"
                /\ Len(ret[1].val[2]) = Len(chosen.token)
                /\ \A i \in 1..Len(chosen.token) :
                     chosen.token[i] \in Allowed => ret[1].val[2][i] = chosen.token[i]
       /\ ret[1].k = "raise" =>
            /\ stack[1] = <<>>
            /\ (a.t = "ok" /\ a.code = 201) => ret[1].exc = "IndexError"
            /\ ~(a.t = "ok" /\ a.code = 201) =>
                 /\ ret[1].exc = "ValueError"
                 /\ Val(ret[1].detail) = ErrorOf(a)

\* get_challenge has returned the second challenge of a list of three: the
\* first is of another type, the third of type http-01 as well.
C22_SecondOfThree ==
    /\ ret[1].k = "return" /\ ret[1].fn = "get_challenge"
    /\ Len(Reqs) > 0 /\ LastReq.m = "POST"
    /\ Http01Places(Val(LastReq.req).ans.body.challenges) = {2, 3}
    /\ ret[1].val[1].uri = Val(LastReq.req).ans.body.challenges[2].uri

\* The CA answered 201 with a list without an http-01 challenge and
\* get_challenge has raised.
C22_NoHttp01 ==
    /\ ret[1].k = "raise" /\ ret[1].fn = "get_challenge"
    /\ Len(Reqs) > 0 /\ LastReq.m = "POST"
    /\ Val(LastReq.req).ans.t = "ok" /\ Val(LastReq.req).ans.code = 201

\* The functions that are passed a session.
SessionCalls ==
    {"write_challenges", "verify_challenges", "notify_challenges", "check_challenges",
     "remove_challenges"}

\* The session is, during and after a call it was passed to, what it was when
\* the call began; every frame of the call works on that session's values.
SessionAsPassed ==
    fx.call.fn \in SessionCalls =>
        LET state == fx.call.state IN
        /\ usr.held = Some(state)
        /\ state.header = Account(state.account_key).header
        /\ \A k \in 1..Len(stack[1]) :
             LET fr == stack[1][k] IN
             /\ "state" \in DOMAIN fr => fr.state = state
             /\ fr.fn = "_send_signed_request" =>
                  /\ fr.header = state.header /\ fr.CA = state.CA
                  /\ fr.account_key = state.account_key
                  /\ fr.account_key_type = state.account_key_type
                  /\ fr.account_key_algorithm = state.account_key_algorithm
             /\ fr.fn = "check_challenge_verified" =>
                  \E i \in 1..Len(state.challenges) :
                      /\ fr.challenge = state.challenges[i].challenge
                      /\ fr.domain = state.challenges[i].domain

\* C23: once get_challenges has returned a session, no step of
\* write_challenges, verify_challenges, notify_challenges, check_challenges or
\* remove_challenges changes any field of it, whether the call succeeds or
\* fails (the nonce goes into a copy of the header), and every frame of a call
\* works on the values of the session the call was passed.
C23_SessionNeverModified ==
    /\ []SessionAsPassed
    /\ [][~IsNone(usr.held) => usr.held' = usr.held]_vars

\* The program has called all five functions with its session, notify_challenges
\* having been refused, and holds the session get_challenges returned.
C23_AfterFailedNotify ==
    /\ fx.call.fn = "notify_challenges"
    /\ Finished /\ ret[1].k = "raise" /\ ret[1].fn = "notify_challenge"
    /\ Len(PostsOf(Reqs)) = 2
    /\ usr.held = Some(fx.call.state)
    /\ usr.files # {}

\* check_challenges has returned the certificate for the session.
C23_AfterCertificate ==
    /\ fx.call.fn = "check_challenges"
    /\ ret[1].k = "return" /\ ret[1].fn = "check_challenges"
    /\ usr.held = Some(fx.call.state)

====
